---- MODULE Spec2Model ----
(***************************************************************************)
(* toki: a task tracker over one SQLite file, used by two processes: the   *)
(* command line (cmd/toki) and the MCP server (internal/mcp).  The store   *)
(* is the four tables of internal/db/migrations.go; every SQL statement    *)
(* is one atomic step (autocommit), and a command or tool handler is the   *)
(* sequence of its statements, interleaved with the other process's.       *)
(***************************************************************************)
EXTENDS Naturals, Integers, Sequences, FiniteSets, Bags, TLC

(***************************************************************************)
(* Bounds of the model.                                                    *)
(***************************************************************************)
\* todos created in one behaviour (the k-th NewTodo gets the k-th UUID)
MaxTodos == 2
\* projects created in one behaviour
MaxProjects == 2
\* commands and tool calls started in one behaviour
MaxOps == 3
\* the clock runs from 1 to MaxTime
MaxTime == 2

(***************************************************************************)
(* Program constants.                                                      *)
(***************************************************************************)
\* GetTodoByPrefix: if len(prefix) < 6
MinPrefixLen == 6
\* GetTodoByPrefix: t.ID.String()[:8]
ShortIDLen == 8
\* cmd add: if len(description) < 3
MinDescLen == 3
\* the zero time.Time, what a Todo field holds when nothing assigned it
ZeroTime == 0
\* FormatTodo: 24 * time.Hour, in ticks of the clock (a tick is 12 hours)
Day == 2

(***************************************************************************)
(* A nullable column or pointer is a set with at most one element.         *)
(***************************************************************************)
NULL == {}

Some(v) == {v}

The(opt) == CHOOSE v \in opt : TRUE

(***************************************************************************)
(* Identifiers.  uuid.New() draws a fresh UUID; the model hands out the    *)
(* UUIDs of a fixed list in order.  UUIDText is uuid.UUID.String(): the    *)
(* canonical lowercase text, here cut to 9 characters.  The first two      *)
(* share their first 6 characters, as two random UUIDs may.                *)
(***************************************************************************)
TodoIDs == <<"t1", "t2", "t3", "t4">>

ProjectIDs == <<"p1", "p2", "p3", "p4">>

UUIDText(id) ==
    CASE id = "t1" -> <<"a", "3", "f", "2", "b", "9", "0", "1", "-">>
      [] id = "t2" -> <<"a", "3", "f", "2", "b", "9", "c", "4", "-">>
      [] id = "t3" -> <<"a", "3", "f", "2", "c", "7", "7", "e", "-">>
      [] id = "t4" -> <<"5", "d", "0", "0", "b", "9", "1", "a", "-">>
      [] OTHER -> <<>>

\* ASCII case folding, as SQLite's LIKE does it for the letters A-Z
Fold(c) ==
    CASE c = "A" -> "a" [] c = "B" -> "b" [] c = "C" -> "c"
      [] c = "D" -> "d" [] c = "E" -> "e" [] c = "F" -> "f"
      [] OTHER -> c

\* SQLite's LIKE: % matches any run of characters, _ any one character,
\* letters match without regard to case.  pat from position i against
\* txt from position j.
RECURSIVE LikeFrom(_, _, _, _)
LikeFrom(pat, i, txt, j) ==
    IF i > Len(pat) THEN j > Len(txt)
    ELSE IF pat[i] = "%"
         THEN \E k \in j..(Len(txt) + 1) : LikeFrom(pat, i + 1, txt, k)
    ELSE IF j > Len(txt) THEN FALSE
    ELSE IF pat[i] = "_" THEN LikeFrom(pat, i + 1, txt, j + 1)
    ELSE /\ Fold(pat[i]) = Fold(txt[j])
         /\ LikeFrom(pat, i + 1, txt, j + 1)

Like(txt, pat) == LikeFrom(pat, 1, txt, 1)

\* s[:n]
Take(s, n) == SubSeq(s, 1, n)

\* strings.HasPrefix(s, p), character for character
HasPrefix(s, p) == Len(p) <= Len(s) /\ Take(s, Len(p)) = p


(***************************************************************************)
(* The store: the four tables of the schema.  A projects row is [id,       *)
(* name]; a todos row has the ten columns of the schema; a tags row is     *)
(* [id, name]; todo_tags is a bag of [todo_id, tag_id] rows, so that its   *)
(* primary key is something the statements keep, not the representation.   *)
(* tagSeq is the AUTOINCREMENT sequence of tags.                           *)
(***************************************************************************)
VARIABLES projects, todos, tags, tagSeq, todo_tags

(***************************************************************************)
(* The clock, and the two processes: what each is executing (pc), its      *)
(* local variables (loc) and the outcome of its last command or call (res) *)
(***************************************************************************)
VARIABLES now, pc, loc, res

(***************************************************************************)
(* Counters behind the bounds, and the history the properties speak of:    *)
(* the todos and projects deleted so far, and the answer of the server's   *)
(* last completed call when that call was an add_todo that succeeded.      *)
(***************************************************************************)
VARIABLES nOps, nTodos, nProjects, goneTodos, goneProjects, justCreated

store == <<projects, todos, tags, tagSeq, todo_tags>>

vars == <<projects, todos, tags, tagSeq, todo_tags, now, pc, loc, res,
          nOps, nTodos, nProjects, goneTodos, goneProjects, justCreated>>

CLI == "cli"

MCP == "mcp"

Procs == {CLI, MCP}

(***************************************************************************)
(* internal/models: constructors and the two completion methods.           *)
(***************************************************************************)
NewProject(id, name) == [id |-> id, name |-> name]

NewTodo(id, projectID, description, t) ==
    [id |-> id, project_id |-> projectID, description |-> description,
     done |-> FALSE, priority |-> NULL, notes |-> NULL,
     created_at |-> t, updated_at |-> ZeroTime,
     completed_at |-> NULL, due_date |-> NULL]

MarkDoneNoStamp(todo, t) == [todo EXCEPT !.done = TRUE]

MarkDone(todo, t) == [todo EXCEPT !.done = TRUE, !.completed_at = Some(t)]

MarkUndone(todo) == [todo EXCEPT !.done = FALSE, !.completed_at = NULL]

(***************************************************************************)
(* internal/db, projects.go: each operator is one SQL statement.           *)
(***************************************************************************)
\* SELECT ... FROM projects WHERE id = ?
GetProjectByID(ps, id) == {p \in ps : p.id = id}

\* SELECT ... FROM projects WHERE name = ?
GetProjectByName(ps, name) == {p \in ps : p.name = name}

ProjectInsertUnchecked(ps, row) == TRUE

\* id TEXT PRIMARY KEY, name TEXT UNIQUE NOT NULL
ProjectInsertAllowed(ps, row) ==
    \A p \in ps : p.id # row.id /\ p.name # row.name

\* INSERT INTO projects: the table after the statement (unchanged when the
\* statement fails on a constraint)
CreateProject(ps, row) ==
    IF ProjectInsertAllowed(ps, row) THEN ps \cup {row} ELSE ps

\* ON DELETE CASCADE from projects to todos
CascadeTodosNone(ts, projectID) == ts

CascadeTodos(ts, projectID) == {t \in ts : t.project_id # projectID}

\* ON DELETE CASCADE from todos to todo_tags: the rows of the todos that
\* are left
CascadeTodoTags(tt, ts) ==
    LET keep == {r \in DOMAIN tt : \E t \in ts : t.id = r.todo_id}
    IN  [r \in keep |-> tt[r]]

\* DELETE FROM projects WHERE id = ?
DeleteProject(ps, id) == {p \in ps : p.id # id}

(***************************************************************************)
(* internal/db, todos.go                                                   *)
(***************************************************************************)
\* FOREIGN KEY (project_id) REFERENCES projects(id), id TEXT PRIMARY KEY
TodoInsertAllowed(ts, ps, row) ==
    /\ \A t \in ts : t.id # row.id
    /\ \E p \in ps : p.id = row.project_id

\* INSERT INTO todos
CreateTodo(ts, ps, row) ==
    IF TodoInsertAllowed(ts, ps, row) THEN ts \cup {row} ELSE ts

\* SELECT ... FROM todos WHERE id = ?
GetTodoByID(ts, id) == {t \in ts : t.id = id}

UpdateTodoNothing(ts, todo) == ts

\* UPDATE todos SET description, done, priority, notes, updated_at,
\* completed_at, due_date WHERE id = ?   (no row: nothing changes, no error)
UpdateTodo(ts, todo) ==
    {IF t.id = todo.id
     THEN [t EXCEPT !.description = todo.description,
                    !.done = todo.done,
                    !.priority = todo.priority,
                    !.notes = todo.notes,
                    !.updated_at = todo.updated_at,
                    !.completed_at = todo.completed_at,
                    !.due_date = todo.due_date]
     ELSE t : t \in ts}

\* DELETE FROM todos WHERE id = ?
DeleteTodo(ts, id) == {t \in ts : t.id # id}

(***************************************************************************)
(* internal/db, tags.go                                                    *)
(***************************************************************************)
\* SELECT id, name FROM tags WHERE name = ?
GetTagByName(tg, name) == {g \in tg : g.name = name}

\* name TEXT UNIQUE NOT NULL
TagInsertAllowed(tg, name) == \A g \in tg : g.name # name

\* INSERT INTO tags (name): the new row's id is the AUTOINCREMENT value
InsertTag(tg, seq, name) ==
    IF TagInsertAllowed(tg, name)
    THEN tg \cup {[id |-> seq + 1, name |-> name]}
    ELSE tg

\* the foreign keys of todo_tags
TodoTagInsertAllowed(ts, tg, row) ==
    /\ \E t \in ts : t.id = row.todo_id
    /\ \E g \in tg : g.id = row.tag_id

InsertTodoTagAlways(tt, row) == tt (+) SetToBag({row})

\* INSERT OR IGNORE INTO todo_tags: PRIMARY KEY (todo_id, tag_id)
InsertOrIgnoreTodoTag(tt, row) ==
    IF BagIn(row, tt) THEN tt ELSE tt (+) SetToBag({row})

RemoveTagFromTodoAllOfTodo(tt, tg, todoID, name) ==
    [r \in {x \in DOMAIN tt : x.todo_id # todoID} |-> tt[r]]

\* DELETE FROM todo_tags WHERE todo_id = ? AND
\*   tag_id = (SELECT id FROM tags WHERE name = ?)
RemoveTagFromTodo(tt, tg, todoID, name) ==
    LET ids  == {g.id : g \in GetTagByName(tg, name)}
        keep == {r \in DOMAIN tt : ~(r.todo_id = todoID /\ r.tag_id \in ids)}
    IN  [r \in keep |-> tt[r]]

\* the rank of a tag name under ORDER BY name (BINARY collation: upper
\* case sorts before lower case)
NameRank(name) ==
    CASE name = "Bug" -> 1 [] name = "bug" -> 2 [] name = "ui" -> 3
      [] OTHER -> 4

RECURSIVE SortNames(_)
SortNames(S) ==
    IF S = {} THEN <<>>
    ELSE LET m == CHOOSE x \in S : \A y \in S : NameRank(x) <= NameRank(y)
         IN  <<m>> \o SortNames(S \ {m})

\* SELECT t.id, t.name FROM tags t INNER JOIN todo_tags tt ... WHERE
\* tt.todo_id = ? ORDER BY t.name      (the names, which is all callers use)
GetTodoTags(tt, tg, todoID) ==
    SortNames({g.name : g \in {x \in tg :
        \E r \in DOMAIN tt : r.todo_id = todoID /\ r.tag_id = x.id}})


\* GetTodoByPrefix: WHERE id LIKE prefix || '%'
PrefixMatches(ts, prefix) ==
    {t \in ts : Like(UUIDText(t.id), prefix \o <<"%">>)}

\* GetTodoByPrefix: the outcome, as [err, todo, ids]
GetTodoByPrefix(ts, prefix) ==
    LET matches == PrefixMatches(ts, prefix)
    IN  IF Len(prefix) < MinPrefixLen
        THEN [err |-> "prefix_too_short", todo |-> NULL, ids |-> {}]
        ELSE IF matches = {}
        THEN [err |-> "no_match", todo |-> NULL, ids |-> {}]
        ELSE IF Cardinality(matches) > 1
        THEN [err |-> "ambiguous", todo |-> NULL,
              ids |-> {Take(UUIDText(t.id), ShortIDLen) : t \in matches}]
        ELSE [err |-> "", todo |-> matches, ids |-> {}]

\* ListTodos, FROM clause: todos t, and with a tag filter
\* LEFT JOIN todo_tags tt ON t.id = tt.todo_id LEFT JOIN tags tg ON
\* tt.tag_id = tg.id.  One record per joined row: the k-th copy of an
\* association row r gives its own joined row.
JoinedRows(ts, tt, tg, tag) ==
    IF tag = NULL
    THEN {[t |-> t, r |-> NULL, k |-> 1, tg_name |-> NULL] : t \in ts}
    ELSE LET linked(t) == {r \in DOMAIN tt : r.todo_id = t.id}
             name(r)   == {g.name : g \in {x \in tg : x.id = r.tag_id}}
         IN  UNION {
               IF linked(t) = {}
               THEN {[t |-> t, r |-> NULL, k |-> 1, tg_name |-> NULL]}
               ELSE UNION {{[t |-> t, r |-> Some(r), k |-> k,
                             tg_name |-> name(r)] : k \in 1..tt[r]}
                           : r \in linked(t)}
               : t \in ts}

WhereListTodosNoPriority(j, projectID, done, priority, tag) ==
    /\ projectID # NULL => j.t.project_id = The(projectID)
    /\ done # NULL => j.t.done = The(done)
    /\ tag # NULL => j.tg_name = tag

\* ListTodos, WHERE clause: 1=1 AND each supplied predicate (a comparison
\* with a NULL column is not true)
WhereListTodos(j, projectID, done, priority, tag) ==
    /\ projectID # NULL => j.t.project_id = The(projectID)
    /\ done # NULL => j.t.done = The(done)
    /\ priority # NULL => j.t.priority = priority
    /\ tag # NULL => j.tg_name = tag

\* ORDER BY t.created_at DESC; rows with equal created_at come in an order
\* the store chooses
RECURSIVE OrderByCreatedDesc(_)
OrderByCreatedDesc(S) ==
    IF S = {} THEN <<>>
    ELSE LET m == CHOOSE x \in S : \A y \in S : y.created_at <= x.created_at
         IN  <<m>> \o OrderByCreatedDesc(S \ {m})

\* ListTodos: SELECT DISTINCT t.* ... ORDER BY t.created_at DESC
ListTodos(ts, tt, tg, projectID, done, priority, tag) ==
    OrderByCreatedDesc(
      {j.t : j \in {x \in JoinedRows(ts, tt, tg, tag) :
                      WhereListTodos(x, projectID, done, priority, tag)}})

\* SELECT ... FROM projects ORDER BY name   (the rows; no caller reads
\* their order)
ListProjects(ps) == ps

\* time.Time.Before
Before(a, b) == a < b

\* time.Time.Truncate(d): t rounded down to a multiple of d since the zero
\* time
Truncate(t, d) == t - (t % d)

\* filterOverdueTodos / the overdue count of calculateStats
IsOverdue(todo, t) ==
    /\ todo.due_date # NULL
    /\ Before(The(todo.due_date), t)
    /\ ~todo.done

Range(s) == {s[i] : i \in DOMAIN s}

\* the number of positions of list s whose element is in S
CountIn(s, S) == Cardinality({i \in DOMAIN s : s[i] \in S})

StatsDataTotalOfProjects(allTodos, ps, t) ==
    [total     |-> Cardinality(ps),
     pending   |-> CountIn(allTodos, {x \in Range(allTodos) : ~x.done}),
     completed |-> CountIn(allTodos, {x \in Range(allTodos) : x.done}),
     overdue   |-> 0, by_priority |-> <<>>, by_project |-> {}]

\* calculateStats, after its two reads: allTodos is the list ListTodos
\* returned and ps the rows ListProjects returned
StatsData(allTodos, ps, t) ==
    LET count(pid) == CountIn(allTodos,
                              {x \in Range(allTodos) : x.project_id = pid})
        prio(x)    == IF x.priority = NULL THEN "none" ELSE The(x.priority)
        prios      == {prio(x) : x \in Range(allTodos)}
    IN  [total     |-> Len(allTodos),
         pending   |-> CountIn(allTodos, {x \in Range(allTodos) : ~x.done}),
         completed |-> CountIn(allTodos, {x \in Range(allTodos) : x.done}),
         overdue   |-> CountIn(allTodos,
                               {x \in Range(allTodos) : IsOverdue(x, t)}),
         by_priority |->
             [q \in prios |->
                CountIn(allTodos, {x \in Range(allTodos) : prio(x) = q})],
         by_project |->
             {[project_id |-> pr.id, project_name |-> pr.name,
               todo_count |-> count(pr.id)]
              : pr \in {x \in ps : count(x.id) > 0}}]


(***************************************************************************)
(* Input parsing and validation of the two front ends.                     *)
(***************************************************************************)
\* uuid.Parse succeeds on the text of any UUID
IsUUID(s) == s \in Range(TodoIDs) \cup Range(ProjectIDs)

\* validatePriority
ValidPriority(priority) ==
    priority = NULL \/ The(priority) \in {"low", "medium", "high"}

\* time.Parse(time.RFC3339, s): the time, or NULL for a parse error.  The
\* clock value 1 is 2025-01-01T12:00:00Z, 2 is the midnight after it (the
\* even values are the midnights).
ParseRFC3339(s) ==
    CASE s = "2025-01-01T12:00:00Z" -> Some(1)
      [] s = "2025-01-02T00:00:00Z" -> Some(2)
      [] OTHER -> NULL

\* parseDueDate: [ok, due]; nil or "" is no due date
ParseDueDate(dueDateStr) ==
    IF dueDateStr = NULL \/ dueDateStr = Some("")
    THEN [ok |-> TRUE, due |-> NULL]
    ELSE [ok |-> ParseRFC3339(The(dueDateStr)) # NULL,
          due |-> ParseRFC3339(The(dueDateStr))]

\* time.Parse("2006-01-02", s) of the add command
ParseDate(s) ==
    CASE s = "2025-01-02" -> Some(2)
      [] s = "2025-01-03" -> Some(4)
      [] OTHER -> NULL

\* strings.ToLower, on the words the model feeds it
ToLower(s) ==
    CASE s = "Bug" -> "bug" [] s = "UI" -> "ui" [] s = "High" -> "high"
      [] s = "LOW" -> "low"
      [] OTHER -> s

\* len(description), of the descriptions the model feeds
StrLen(s) ==
    CASE s = "" -> 0 [] s = "ab" -> 2 [] s = "buy milk" -> 8
      [] s = "buy bread" -> 9
      [] OTHER -> 4

(***************************************************************************)
(* Control: a process is idle or at the statement it executes next.        *)
(***************************************************************************)
NoLoc == [op |-> "idle"]

NoRes == [op |-> "none", ok |-> TRUE, err |-> "", out |-> <<>>]

Ok(op, out) == [op |-> op, ok |-> TRUE, err |-> "", out |-> out]

Err(op, kind, out) == [op |-> op, ok |-> FALSE, err |-> kind, out |-> out]

\* the protocol layer checks the arguments of a tool call against the
\* tool's InputSchema before it runs the handler: the priority of add_todo,
\* list_todos and update_todo is one of the schema's enum.  (The required
\* properties are present in every input of the model, and "format" is an
\* annotation that is not checked.)
SchemaAccepts(in) ==
    in.priority = NULL \/ The(in.priority) \in {"low", "medium", "high"}

\* a call the schema rejects fails as a call: its client gets the
\* protocol's error and no result
ProtocolError(op, in) ==
    [op |-> op, ok |-> FALSE, err |-> "invalid_params", out |-> in]

\* a command or tool call starts
Begin(p) ==
    /\ pc[p] = "idle"
    /\ nOps[CLI] + nOps[MCP] < MaxOps
    /\ nOps' = [nOps EXCEPT ![p] = @ + 1]

\* it returns r to its caller
Return(p, r) ==
    /\ pc' = [pc EXCEPT ![p] = "idle"]
    /\ loc' = [loc EXCEPT ![p] = NoLoc]
    /\ res' = [res EXCEPT ![p] = r]
    /\ justCreated' = IF p # MCP THEN justCreated
                      ELSE IF r.op = "add_todo" /\ r.ok THEN Some(r.out)
                      ELSE NULL

\* it goes on to the statement at label with locals l
Goto(p, label, l) ==
    /\ pc' = [pc EXCEPT ![p] = label]
    /\ loc' = [loc EXCEPT ![p] = l]
    /\ res' = [res EXCEPT ![p] = NoRes]
    /\ justCreated' = justCreated

IDsOf(rows) == {x.id : x \in rows}

Init ==
    /\ projects = {}
    /\ todos = {}
    /\ tags = {}
    /\ tagSeq = 0
    /\ todo_tags = EmptyBag
    /\ now = 1
    /\ pc = [p \in Procs |-> "idle"]
    /\ loc = [p \in Procs |-> NoLoc]
    /\ res = [p \in Procs |-> NoRes]
    /\ nOps = [p \in Procs |-> 0]
    /\ nTodos = 0
    /\ nProjects = 0
    /\ goneTodos = {}
    /\ goneProjects = {}
    /\ justCreated = NULL

\* time passes
Tick ==
    /\ now < MaxTime
    /\ now' = now + 1
    /\ UNCHANGED <<store, pc, loc, res, nOps, nTodos, nProjects,
                   goneTodos, goneProjects, justCreated>>


(***************************************************************************)
(* add_todo (MCP) and add (CLI).  The UUIDs that NewProject and NewTodo    *)
(* will draw are taken when the call starts.                               *)
(***************************************************************************)
\* validatePriority and parseDueDate accept the input
AddTodoInputValid(in) ==
    ValidPriority(in.priority) /\ ParseDueDate(in.due_date).ok

\* handleAddTodo after resolveProjectID: validatePriority, parseDueDate,
\* then on to createTodoWithTags
AddTodoValidated(p, in, projectID, todoID) ==
    IF ~ValidPriority(in.priority)
    THEN Return(p, Err("add_todo", "invalid_priority", in))
    ELSE IF ~ParseDueDate(in.due_date).ok
    THEN Return(p, Err("add_todo", "invalid_due_date", in))
    ELSE Goto(p, "add_create",
              [op |-> "add_todo", project_id |-> projectID,
               todo_id |-> todoID, description |-> in.description,
               priority |-> in.priority, notes |-> in.notes,
               due |-> ParseDueDate(in.due_date).due, tags |-> in.tags])

\* add_todo up to its first statement: the protocol layer's check of the
\* arguments, then handleAddTodo's resolveProjectID, which reads
\* the project given (parseAndVerifyProjectID) or the one named "default"
\* (getOrCreateDefaultProject)
handleAddTodo(in) ==
    /\ Begin(MCP)
    /\ nTodos < MaxTodos
    /\ LET todoID == TodoIDs[nTodos + 1]
           given  == in.project_id # NULL /\ in.project_id # Some("")
           dflt   == GetProjectByName(projects, "default")
       IN  IF ~SchemaAccepts(in)
           THEN /\ Return(MCP, ProtocolError("add_todo", in))
                /\ UNCHANGED <<nTodos, nProjects>>
           ELSE IF given /\ ~IsUUID(The(in.project_id))
           THEN /\ Return(MCP, Err("add_todo", "invalid_project_id", in))
                /\ UNCHANGED <<nTodos, nProjects>>
           ELSE IF given /\ GetProjectByID(projects, The(in.project_id)) = NULL
           THEN /\ Return(MCP, Err("add_todo", "project_not_found", in))
                /\ UNCHANGED <<nTodos, nProjects>>
           ELSE IF given
           THEN /\ AddTodoValidated(MCP, in, The(in.project_id), todoID)
                /\ nTodos' = IF AddTodoInputValid(in) THEN nTodos + 1 ELSE nTodos
                /\ UNCHANGED nProjects
           ELSE IF dflt # NULL
           THEN /\ AddTodoValidated(MCP, in, The(dflt).id, todoID)
                /\ nTodos' = IF AddTodoInputValid(in) THEN nTodos + 1 ELSE nTodos
                /\ UNCHANGED nProjects
           ELSE /\ nProjects < MaxProjects
                /\ Goto(MCP, "add_default",
                        [op |-> "add_todo", in |-> in, todo_id |-> todoID,
                         project_id |-> ProjectIDs[nProjects + 1]])
                /\ nProjects' = nProjects + 1
                /\ nTodos' = IF AddTodoInputValid(in) THEN nTodos + 1 ELSE nTodos
    /\ UNCHANGED <<store, now, goneTodos, goneProjects>>

\* getOrCreateDefaultProject, its second statement: CreateProject
getOrCreateDefaultProject(p) ==
    /\ pc[p] = "add_default"
    /\ LET row == NewProject(loc[p].project_id, "default")
       IN  IF ProjectInsertAllowed(projects, row)
           THEN /\ projects' = CreateProject(projects, row)
                /\ AddTodoValidated(p, loc[p].in, row.id, loc[p].todo_id)
           ELSE /\ Return(p, Err("add_todo", "create_default_failed", loc[p].in))
                /\ UNCHANGED projects
    /\ UNCHANGED <<todos, tags, tagSeq, todo_tags, now, nOps, nTodos,
                   nProjects, goneTodos, goneProjects>>

\* the add command up to its first statement: the length check, then
\* getProjectID reads the project named by --project; --priority is
\* lowered and checked, --due parsed, --tags split and the empty ones
\* dropped.  Without --project the command looks for a git repository
\* around the working directory; the model runs it outside of one.
addCmd(in) ==
    /\ Begin(CLI)
    /\ nTodos < MaxTodos
    /\ LET proj     == GetProjectByName(projects, in.project)
           priority == ToLower(in.priority)
           due      == ParseDate(in.due)
           tagList  == SelectSeq(in.tags, LAMBDA x : x # "")
       IN  IF StrLen(in.description) < MinDescLen
           THEN /\ Return(CLI, Err("add_todo", "description_too_short", in))
                /\ UNCHANGED nTodos
           ELSE IF in.project = ""
           THEN /\ Return(CLI, Err("add_todo", "no_project_context", in))
                /\ UNCHANGED nTodos
           ELSE IF proj = NULL
           THEN /\ Return(CLI, Err("add_todo", "project_not_found", in))
                /\ UNCHANGED nTodos
           ELSE IF in.priority # "" /\ priority \notin {"low", "medium", "high"}
           THEN /\ Return(CLI, Err("add_todo", "invalid_priority", in))
                /\ UNCHANGED nTodos
           ELSE IF in.due # "" /\ due = NULL
           THEN /\ Return(CLI, Err("add_todo", "invalid_due_date", in))
                /\ UNCHANGED nTodos
           ELSE /\ Goto(CLI, "add_create",
                        [op |-> "add_todo", project_id |-> The(proj).id,
                         todo_id |-> TodoIDs[nTodos + 1],
                         description |-> in.description,
                         priority |-> IF in.priority = "" THEN NULL
                                      ELSE Some(priority),
                         notes |-> IF in.notes = "" THEN NULL
                                   ELSE Some(in.notes),
                         due |-> IF in.due = "" THEN NULL ELSE due,
                         tags |-> tagList])
                /\ nTodos' = nTodos + 1
    /\ UNCHANGED <<store, now, nProjects, goneTodos, goneProjects>>

\* what a command or call that has added its last tag does next:
\* buildAddTodoResult answers with the tags of the input, the CLI prints,
\* add_tag_to_todo goes on to buildTodoResult
AfterTags(p, l) ==
    IF l.op = "add_tag" /\ p = MCP
    THEN Goto(p, "out_tags", [op |-> l.op, todo |-> l.todo])
    ELSE Return(p, Ok(l.op, [todo |-> l.todo, tags |-> l.tags]))

\* createTodoWithTags / the add command: NewTodo, the optional fields,
\* CreateTodo
createTodoWithTags(p) ==
    /\ pc[p] = "add_create"
    /\ LET l    == loc[p]
           todo == [NewTodo(l.todo_id, l.project_id, l.description, now)
                      EXCEPT !.priority = l.priority, !.notes = l.notes,
                             !.due_date = l.due]
           next == [op |-> "add_todo", todo |-> todo, tags |-> l.tags,
                    rest |-> l.tags]
       IN  IF TodoInsertAllowed(todos, projects, todo)
           THEN /\ todos' = CreateTodo(todos, projects, todo)
                /\ IF l.tags = <<>>
                   THEN AfterTags(p, next)
                   ELSE Goto(p, "tag_sel", next)
           ELSE /\ Return(p, Err("add_todo", "create_todo_failed", l.todo_id))
                /\ UNCHANGED todos
    /\ UNCHANGED <<projects, tags, tagSeq, todo_tags, now, nOps, nTodos,
                   nProjects, goneTodos, goneProjects>>

(***************************************************************************)
(* db.AddTagToTodo for the first tag of loc.rest: GetOrCreateTag is a      *)
(* SELECT and, when it finds no row, an INSERT; then the association.      *)
(***************************************************************************)
\* GetOrCreateTag: SELECT id, name FROM tags WHERE name = ?
TagSelectStep(p) ==
    /\ pc[p] = "tag_sel"
    /\ LET found == GetTagByName(tags, Head(loc[p].rest))
       IN  IF found # NULL
           THEN Goto(p, "tag_link", loc[p] @@ [tag_id |-> The(found).id])
           ELSE Goto(p, "tag_ins", loc[p])
    /\ UNCHANGED <<store, now, nOps, nTodos, nProjects, goneTodos,
                   goneProjects>>

\* GetOrCreateTag: INSERT INTO tags (name) VALUES (?)
TagInsertStep(p) ==
    /\ pc[p] = "tag_ins"
    /\ LET name == Head(loc[p].rest)
       IN  IF TagInsertAllowed(tags, name)
           THEN /\ tags' = InsertTag(tags, tagSeq, name)
                /\ tagSeq' = tagSeq + 1
                /\ Goto(p, "tag_link", loc[p] @@ [tag_id |-> tagSeq + 1])
           ELSE /\ Return(p, Err(loc[p].op, "create_tag_failed", name))
                /\ UNCHANGED <<tags, tagSeq>>
    /\ UNCHANGED <<projects, todos, todo_tags, now, nOps, nTodos, nProjects,
                   goneTodos, goneProjects>>

\* AddTagToTodo: INSERT OR IGNORE INTO todo_tags; then the next tag of
\* the caller's loop
TagLinkStep(p) ==
    /\ pc[p] = "tag_link"
    /\ LET l    == loc[p]
           row  == [todo_id |-> l.todo.id, tag_id |-> l.tag_id]
           next == [op |-> l.op, todo |-> l.todo, tags |-> l.tags,
                    rest |-> Tail(l.rest)]
       IN  IF BagIn(row, todo_tags) \/ TodoTagInsertAllowed(todos, tags, row)
           THEN /\ todo_tags' = InsertOrIgnoreTodoTag(todo_tags, row)
                /\ IF next.rest = <<>>
                   THEN AfterTags(p, next)
                   ELSE Goto(p, "tag_sel", next)
           ELSE /\ Return(p, Err(l.op, "add_tag_failed", row))
                /\ UNCHANGED todo_tags
    /\ UNCHANGED <<projects, todos, tags, tagSeq, now, nOps, nTodos,
                   nProjects, goneTodos, goneProjects>>


(***************************************************************************)
(* mark_done, mark_undone, update_todo (MCP); done, undone (CLI).  Each    *)
(* reads the row, changes its copy and writes the whole row back.          *)
(***************************************************************************)
handleMarkDone(todoID) ==
    /\ Begin(MCP)
    /\ LET found == GetTodoByID(todos, todoID)
       IN  IF ~IsUUID(todoID)
           THEN Return(MCP, Err("mark_done", "invalid_todo_id", todoID))
           ELSE IF found = NULL
           THEN Return(MCP, Err("mark_done", "todo_not_found", todoID))
           ELSE Goto(MCP, "upd", [op |-> "mark_done", rest |-> <<>>,
                                  todo |-> MarkDone(The(found), now)])
    /\ UNCHANGED <<store, now, nTodos, nProjects, goneTodos, goneProjects>>

handleMarkUndone(todoID) ==
    /\ Begin(MCP)
    /\ LET found == GetTodoByID(todos, todoID)
       IN  IF ~IsUUID(todoID)
           THEN Return(MCP, Err("mark_undone", "invalid_todo_id", todoID))
           ELSE IF found = NULL
           THEN Return(MCP, Err("mark_undone", "todo_not_found", todoID))
           ELSE Goto(MCP, "upd", [op |-> "mark_undone", rest |-> <<>>,
                                  todo |-> MarkUndone(The(found))])
    /\ UNCHANGED <<store, now, nTodos, nProjects, goneTodos, goneProjects>>

ApplyUpdateClearsUnsupplied(todo, in, t) ==
    [todo EXCEPT
        !.description = IF in.description # NULL THEN The(in.description) ELSE @,
        !.priority    = in.priority,
        !.notes       = in.notes,
        !.due_date    = ParseDueDate(in.due_date).due,
        !.updated_at  = t]

\* the fields update_todo replaces in its copy of the row
ApplyUpdate(todo, in, t) ==
    [todo EXCEPT
        !.description = IF in.description # NULL THEN The(in.description) ELSE @,
        !.priority    = IF in.priority # NULL THEN in.priority ELSE @,
        !.notes       = IF in.notes # NULL THEN in.notes ELSE @,
        !.due_date    = IF in.due_date # NULL
                        THEN ParseDueDate(in.due_date).due ELSE @,
        !.updated_at  = t]

handleUpdateTodo(in) ==
    /\ Begin(MCP)
    /\ LET found == GetTodoByID(todos, in.todo_id)
       IN  IF ~SchemaAccepts(in)
           THEN Return(MCP, ProtocolError("update_todo", in))
           ELSE IF ~IsUUID(in.todo_id)
           THEN Return(MCP, Err("update_todo", "invalid_todo_id", in))
           ELSE IF found = NULL
           THEN Return(MCP, Err("update_todo", "todo_not_found", in))
           ELSE IF ~ValidPriority(in.priority)
           THEN Return(MCP, Err("update_todo", "invalid_priority", in))
           ELSE IF in.due_date # NULL /\ ~ParseDueDate(in.due_date).ok
           THEN Return(MCP, Err("update_todo", "invalid_due_date", in))
           ELSE Goto(MCP, "upd", [op |-> "update_todo", rest |-> <<>>,
                                  in |-> in,
                                  todo |-> ApplyUpdate(The(found), in, now)])
    /\ UNCHANGED <<store, now, nTodos, nProjects, goneTodos, goneProjects>>

MarkByPrefixNoAdvance(op, args) ==
    LET r == GetTodoByPrefix(todos, Head(args))
    IN  IF r.err # ""
        THEN Return(CLI, Err(op, r.err, r.ids))
        ELSE Goto(CLI, "upd",
                  [op |-> op, rest |-> args,
                   todo |-> IF op = "mark_done" THEN MarkDone(The(r.todo), now)
                            ELSE MarkUndone(The(r.todo))])

\* one turn of the loop of done / undone over its arguments:
\* GetTodoByPrefix, then MarkDone or MarkUndone on the copy
MarkByPrefix(op, args) ==
    LET r == GetTodoByPrefix(todos, Head(args))
    IN  IF r.err # ""
        THEN Return(CLI, Err(op, r.err, r.ids))
        ELSE Goto(CLI, "upd",
                  [op |-> op, rest |-> Tail(args),
                   todo |-> IF op = "mark_done" THEN MarkDone(The(r.todo), now)
                            ELSE MarkUndone(The(r.todo))])

doneCmd(args) ==
    /\ Begin(CLI)
    /\ MarkByPrefix("mark_done", args)
    /\ UNCHANGED <<store, now, nTodos, nProjects, goneTodos, goneProjects>>

undoneCmd(args) ==
    /\ Begin(CLI)
    /\ MarkByPrefix("mark_undone", args)
    /\ UNCHANGED <<store, now, nTodos, nProjects, goneTodos, goneProjects>>

\* done / undone: the next argument of the loop
NextArg(p) ==
    /\ pc[p] = "next_arg"
    /\ p = CLI
    /\ MarkByPrefix(loc[p].op, loc[p].rest)
    /\ UNCHANGED <<store, now, nOps, nTodos, nProjects, goneTodos,
                   goneProjects>>

\* db.UpdateTodo: UPDATE todos SET ... WHERE id = ?; a row that is gone
\* makes it change nothing and report no error
UpdateTodoStep(p) ==
    /\ pc[p] = "upd"
    /\ todos' = UpdateTodo(todos, loc[p].todo)
    /\ IF p = MCP
       THEN Goto(p, "out_tags", [op |-> loc[p].op, todo |-> loc[p].todo])
       ELSE IF loc[p].rest = <<>>
       THEN Return(p, Ok(loc[p].op, [todo |-> loc[p].todo, tags |-> <<>>]))
       ELSE Goto(p, "next_arg", [op |-> loc[p].op, rest |-> loc[p].rest])
    /\ UNCHANGED <<projects, tags, tagSeq, todo_tags, now, nOps, nTodos,
                   nProjects, goneTodos, goneProjects>>

\* buildTodoResult: GetTodoTags, then the answer built from the copy
buildTodoResult(p) ==
    /\ pc[p] = "out_tags"
    /\ Return(p, Ok(loc[p].op,
                    [todo |-> loc[p].todo,
                     tags |-> GetTodoTags(todo_tags, tags, loc[p].todo.id)]))
    /\ UNCHANGED <<store, now, nOps, nTodos, nProjects, goneTodos,
                   goneProjects>>

(***************************************************************************)
(* delete_todo (MCP), remove (CLI)                                         *)
(***************************************************************************)
handleDeleteTodo(todoID) ==
    /\ Begin(MCP)
    /\ IF ~IsUUID(todoID)
       THEN Return(MCP, Err("delete_todo", "invalid_todo_id", todoID))
       ELSE IF GetTodoByID(todos, todoID) = NULL
       THEN Return(MCP, Err("delete_todo", "todo_not_found", todoID))
       ELSE Goto(MCP, "del", [op |-> "delete_todo", todo_id |-> todoID])
    /\ UNCHANGED <<store, now, nTodos, nProjects, goneTodos, goneProjects>>

removeCmd(prefix) ==
    /\ Begin(CLI)
    /\ LET r == GetTodoByPrefix(todos, prefix)
       IN  IF r.err # ""
           THEN Return(CLI, Err("delete_todo", r.err, r.ids))
           ELSE Goto(CLI, "del", [op |-> "delete_todo",
                                  todo_id |-> The(r.todo).id])
    /\ UNCHANGED <<store, now, nTodos, nProjects, goneTodos, goneProjects>>

\* db.DeleteTodo: DELETE FROM todos WHERE id = ?, with the cascade to
\* todo_tags
DeleteTodoStep(p) ==
    /\ pc[p] = "del"
    /\ todos' = DeleteTodo(todos, loc[p].todo_id)
    /\ todo_tags' = CascadeTodoTags(todo_tags, todos')
    /\ goneTodos' = goneTodos \cup (IDsOf(todos) \ IDsOf(todos'))
    /\ Return(p, Ok("delete_todo", loc[p].todo_id))
    /\ UNCHANGED <<projects, tags, tagSeq, now, nOps, nTodos, nProjects,
                   goneProjects>>


(***************************************************************************)
(* add_tag_to_todo, remove_tag_from_todo (MCP); tag add, tag remove (CLI,  *)
(* which lowers the tag name first)                                        *)
(***************************************************************************)
handleAddTagToTodo(todoID, tagName) ==
    /\ Begin(MCP)
    /\ LET found == GetTodoByID(todos, todoID)
       IN  IF ~IsUUID(todoID)
           THEN Return(MCP, Err("add_tag", "invalid_todo_id", todoID))
           ELSE IF found = NULL
           THEN Return(MCP, Err("add_tag", "todo_not_found", todoID))
           ELSE Goto(MCP, "tag_sel", [op |-> "add_tag", todo |-> The(found),
                                      tags |-> <<tagName>>,
                                      rest |-> <<tagName>>])
    /\ UNCHANGED <<store, now, nTodos, nProjects, goneTodos, goneProjects>>

tagAddCmd(prefix, tag) ==
    /\ Begin(CLI)
    /\ LET tagName == ToLower(tag)
           r       == GetTodoByPrefix(todos, prefix)
       IN  IF r.err # ""
           THEN Return(CLI, Err("add_tag", r.err, r.ids))
           ELSE Goto(CLI, "tag_sel", [op |-> "add_tag", todo |-> The(r.todo),
                                      tags |-> <<tagName>>,
                                      rest |-> <<tagName>>])
    /\ UNCHANGED <<store, now, nTodos, nProjects, goneTodos, goneProjects>>

handleRemoveTagFromTodo(todoID, tagName) ==
    /\ Begin(MCP)
    /\ LET found == GetTodoByID(todos, todoID)
       IN  IF ~IsUUID(todoID)
           THEN Return(MCP, Err("remove_tag", "invalid_todo_id", todoID))
           ELSE IF found = NULL
           THEN Return(MCP, Err("remove_tag", "todo_not_found", todoID))
           ELSE Goto(MCP, "untag", [op |-> "remove_tag", todo |-> The(found),
                                    name |-> tagName])
    /\ UNCHANGED <<store, now, nTodos, nProjects, goneTodos, goneProjects>>

tagRemoveCmd(prefix, tag) ==
    /\ Begin(CLI)
    /\ LET tagName == ToLower(tag)
           r       == GetTodoByPrefix(todos, prefix)
       IN  IF r.err # ""
           THEN Return(CLI, Err("remove_tag", r.err, r.ids))
           ELSE Goto(CLI, "untag", [op |-> "remove_tag", todo |-> The(r.todo),
                                    name |-> tagName])
    /\ UNCHANGED <<store, now, nTodos, nProjects, goneTodos, goneProjects>>

\* db.RemoveTagFromTodo: one DELETE on todo_tags
RemoveTagStep(p) ==
    /\ pc[p] = "untag"
    /\ todo_tags' = RemoveTagFromTodo(todo_tags, tags, loc[p].todo.id,
                                      loc[p].name)
    /\ IF p = MCP
       THEN Goto(p, "out_tags", [op |-> "remove_tag", todo |-> loc[p].todo])
       ELSE Return(p, Ok("remove_tag", [todo |-> loc[p].todo,
                                        tags |-> <<loc[p].name>>]))
    /\ UNCHANGED <<projects, todos, tags, tagSeq, now, nOps, nTodos,
                   nProjects, goneTodos, goneProjects>>

(***************************************************************************)
(* add_project, delete_project (MCP); project add, project remove (CLI)    *)
(***************************************************************************)
\* NewProject and CreateProject, one INSERT, for either front end
AddProject(p, name) ==
    /\ Begin(p)
    /\ nProjects < MaxProjects
    /\ LET row == NewProject(ProjectIDs[nProjects + 1], name)
       IN  IF ProjectInsertAllowed(projects, row)
           THEN /\ projects' = CreateProject(projects, row)
                /\ nProjects' = nProjects + 1
                /\ Return(p, Ok("add_project", row))
           ELSE /\ Return(p, Err("add_project", "create_project_failed", name))
                /\ UNCHANGED <<projects, nProjects>>
    /\ UNCHANGED <<todos, tags, tagSeq, todo_tags, now, nTodos, goneTodos,
                   goneProjects>>

handleAddProject(name) == AddProject(MCP, name)

projectAddCmd(name) == AddProject(CLI, name)

handleDeleteProject(projectID) ==
    /\ Begin(MCP)
    /\ IF ~IsUUID(projectID)
       THEN Return(MCP, Err("delete_project", "invalid_project_id", projectID))
       ELSE IF GetProjectByID(projects, projectID) = NULL
       THEN Return(MCP, Err("delete_project", "project_not_found", projectID))
       ELSE Goto(MCP, "delproj", [op |-> "delete_project",
                                  project_id |-> projectID])
    /\ UNCHANGED <<store, now, nTodos, nProjects, goneTodos, goneProjects>>

projectRemoveCmd(name) ==
    /\ Begin(CLI)
    /\ LET found == GetProjectByName(projects, name)
       IN  IF found = NULL
           THEN Return(CLI, Err("delete_project", "project_not_found", name))
           ELSE Goto(CLI, "delproj", [op |-> "delete_project",
                                      project_id |-> The(found).id])
    /\ UNCHANGED <<store, now, nTodos, nProjects, goneTodos, goneProjects>>

\* db.DeleteProject: DELETE FROM projects WHERE id = ?, with the cascade
\* to todos and from there to todo_tags
DeleteProjectStep(p) ==
    /\ pc[p] = "delproj"
    /\ projects' = DeleteProject(projects, loc[p].project_id)
    /\ todos' = IF projects' = projects THEN todos
                ELSE CascadeTodos(todos, loc[p].project_id)
    /\ todo_tags' = CascadeTodoTags(todo_tags, todos')
    /\ goneProjects' = goneProjects \cup (IDsOf(projects) \ IDsOf(projects'))
    /\ goneTodos' = goneTodos \cup (IDsOf(todos) \ IDsOf(todos'))
    /\ Return(p, Ok("delete_project", loc[p].project_id))
    /\ UNCHANGED <<tags, tagSeq, now, nOps, nTodos, nProjects>>

(***************************************************************************)
(* the toki://stats resource: calculateStats reads the todos, then the     *)
(* projects, and counts over what it read                                  *)
(***************************************************************************)
calculateStats ==
    /\ Begin(MCP)
    /\ Goto(MCP, "stats_projects",
            [op |-> "stats",
             allTodos |-> ListTodos(todos, todo_tags, tags,
                                    NULL, NULL, NULL, NULL)])
    /\ UNCHANGED <<store, now, nTodos, nProjects, goneTodos, goneProjects>>

StatsProjectsStep(p) ==
    /\ pc[p] = "stats_projects"
    /\ Return(p, Ok("stats", StatsData(loc[p].allTodos,
                                       ListProjects(projects), now)))
    /\ UNCHANGED <<store, now, nOps, nTodos, nProjects, goneTodos,
                   goneProjects>>

(***************************************************************************)
(* the todo resources toki://todos, /pending, /overdue and /high-priority: *)
(* handleTodoResource reads the list with ListTodos, filters it, and then  *)
(* buildTodoOutputs reads the tags of each todo of the list in turn        *)
(***************************************************************************)
filterOverdueTodosDoneToo(list, t) ==
    SelectSeq(list, LAMBDA x : x.due_date # NULL /\ Before(The(x.due_date), t))

filterOverdueTodos(list, t) == SelectSeq(list, LAMBDA x : IsOverdue(x, t))

filterNonOverdueTodos(list, t) ==
    SelectSeq(list, LAMBDA x : \/ x.due_date = NULL
                               \/ ~Before(The(x.due_date), t)
                               \/ x.done)

fetchAndFilterTodosNoFilters(ts, tt, tg, projectID, done, priority, tag, overdue, t) ==
    ListTodos(ts, tt, tg, NULL, NULL, NULL, NULL)

fetchAndFilterTodos(ts, tt, tg, projectID, done, priority, tag, overdue, t) ==
    LET list == ListTodos(ts, tt, tg, projectID, done, priority, tag)
    IN  IF overdue THEN filterOverdueTodos(list, t) ELSE list

\* the filters each registered resource hands to handleTodoResource
ResourceFilters(uri) ==
    CASE uri = "toki://todos" ->
           [done |-> NULL, priority |-> NULL, overdue |-> FALSE]
      [] uri = "toki://todos/pending" ->
           [done |-> Some(FALSE), priority |-> NULL, overdue |-> FALSE]
      [] uri = "toki://todos/overdue" ->
           [done |-> NULL, priority |-> NULL, overdue |-> TRUE]
      [] uri = "toki://todos/high-priority" ->
           [done |-> NULL, priority |-> Some("high"), overdue |-> FALSE]

TodoOutputNoTags(todo, tagNames) ==
    [id |-> todo.id, project_id |-> todo.project_id,
     description |-> todo.description, done |-> todo.done,
     created_at |-> todo.created_at, tags |-> <<>>,
     priority |-> todo.priority, notes |-> todo.notes,
     completed_at |-> todo.completed_at, due_date |-> todo.due_date]

\* buildTodoOutputs: the entry of one todo (an optional field that is nil
\* is left out of the map: NULL here)
TodoOutput(todo, tagNames) ==
    [id |-> todo.id, project_id |-> todo.project_id,
     description |-> todo.description, done |-> todo.done,
     created_at |-> todo.created_at, tags |-> tagNames,
     priority |-> todo.priority, notes |-> todo.notes,
     completed_at |-> todo.completed_at, due_date |-> todo.due_date]

\* the resource's answer: the list as fetched and the entries built from it
ResourceData(uri, fetched, data) ==
    Ok("read_todos", [uri |-> uri, fetched |-> fetched, data |-> data])

\* handleTodoResource up to its first statement: fetchAndFilterTodos
handleTodoResource(uri) ==
    /\ Begin(MCP)
    /\ LET f    == ResourceFilters(uri)
           list == fetchAndFilterTodos(todos, todo_tags, tags, NULL, f.done,
                                       f.priority, NULL, f.overdue, now)
       IN  IF list = <<>>
           THEN Return(MCP, ResourceData(uri, list, <<>>))
           ELSE Goto(MCP, "res_tags",
                     [op |-> "read_todos", uri |-> uri, fetched |-> list,
                      rest |-> list, data |-> <<>>])
    /\ UNCHANGED <<store, now, nTodos, nProjects, goneTodos, goneProjects>>

\* buildTodoOutputs, one turn of its loop: GetTodoTags of the next todo
buildTodoOutputs(p) ==
    /\ pc[p] = "res_tags"
    /\ LET l    == loc[p]
           todo == Head(l.rest)
           data == Append(l.data,
                          TodoOutput(todo,
                                     GetTodoTags(todo_tags, tags, todo.id)))
       IN  IF Tail(l.rest) = <<>>
           THEN Return(p, ResourceData(l.uri, l.fetched, data))
           ELSE Goto(p, "res_tags", [l EXCEPT !.rest = Tail(l.rest),
                                              !.data = data])
    /\ UNCHANGED <<store, now, nOps, nTodos, nProjects, goneTodos,
                   goneProjects>>

(***************************************************************************)
(* list_todos: resolveOptionalProjectID and validatePriority, then         *)
(* fetchFilteredTodos, then buildListTodosResult reads the tags of each    *)
(* todo of the list in turn                                                *)
(***************************************************************************)
fetchFilteredTodos(ts, tt, tg, projectID, in, t) ==
    LET list == ListTodos(ts, tt, tg, projectID, in.done, in.priority, in.tag)
    IN  IF in.overdue = Some(TRUE) THEN filterOverdueTodos(list, t)
        ELSE IF in.overdue = Some(FALSE) THEN filterNonOverdueTodos(list, t)
        ELSE list

\* buildListTodosResult: the entry of one todo
ListTodoOutput(todo, tagNames) ==
    [id |-> todo.id, project_id |-> todo.project_id,
     description |-> todo.description, done |-> todo.done,
     priority |-> todo.priority, notes |-> todo.notes, tags |-> tagNames,
     created_at |-> todo.created_at, updated_at |-> todo.updated_at,
     due_date |-> todo.due_date]

\* the tool's answer: the input, the list as fetched and the entries
ListTodosOutput(in, fetched, data) ==
    Ok("list_tool", [in |-> in, fetched |-> fetched, data |-> data])

handleListTodos(in) ==
    /\ Begin(MCP)
    /\ LET given == in.project_id # NULL /\ in.project_id # Some("")
           list  == fetchFilteredTodos(todos, todo_tags, tags,
                                       IF given THEN in.project_id ELSE NULL,
                                       in, now)
       IN  IF ~SchemaAccepts(in)
           THEN Return(MCP, ProtocolError("list_tool", in))
           ELSE IF given /\ ~IsUUID(The(in.project_id))
           THEN Return(MCP, Err("list_tool", "invalid_project_id", in))
           ELSE IF ~ValidPriority(in.priority)
           THEN Return(MCP, Err("list_tool", "invalid_priority", in))
           ELSE IF list = <<>>
           THEN Return(MCP, ListTodosOutput(in, list, <<>>))
           ELSE Goto(MCP, "list_tags",
                     [op |-> "list_tool", in |-> in, fetched |-> list,
                      rest |-> list, data |-> <<>>])
    /\ UNCHANGED <<store, now, nTodos, nProjects, goneTodos, goneProjects>>

\* buildListTodosResult, one turn of its loop: GetTodoTags of the next todo
buildListTodosResult(p) ==
    /\ pc[p] = "list_tags"
    /\ LET l    == loc[p]
           todo == Head(l.rest)
           data == Append(l.data,
                          ListTodoOutput(todo,
                                         GetTodoTags(todo_tags, tags, todo.id)))
       IN  IF Tail(l.rest) = <<>>
           THEN Return(p, ListTodosOutput(l.in, l.fetched, data))
           ELSE Goto(p, "list_tags", [l EXCEPT !.rest = Tail(l.rest),
                                               !.data = data])
    /\ UNCHANGED <<store, now, nOps, nTodos, nProjects, goneTodos,
                   goneProjects>>

(***************************************************************************)
(* the list command (CLI), run without --project outside a git repository: *)
(* ListTodos under the flags given, then GetTodoTags for each todo of the  *)
(* list, then GetProjectByID for each project of the list, in the order in *)
(* which Go ranges over the map: any                                       *)
(***************************************************************************)
listCmd(in) ==
    /\ Begin(CLI)
    /\ LET list == ListTodos(todos, todo_tags, tags, NULL, in.done,
                             IF in.priority = "" THEN NULL
                             ELSE Some(in.priority),
                             IF in.tag = "" THEN NULL ELSE Some(in.tag))
       IN  IF list = <<>>
           THEN Return(CLI, Ok("list", [in |-> in, fetched |-> list,
                                        shown |-> {}]))
           ELSE Goto(CLI, "ls_tags", [op |-> "list", in |-> in,
                                      fetched |-> list, rest |-> list,
                                      items |-> <<>>])
    /\ UNCHANGED <<store, now, nTodos, nProjects, goneTodos, goneProjects>>

\* one turn of the loop over the todos: GetTodoTags (its error is dropped)
ListTagsStep(p) ==
    /\ pc[p] = "ls_tags"
    /\ LET l     == loc[p]
           todo  == Head(l.rest)
           items == Append(l.items,
                           [todo |-> todo,
                            tags |-> GetTodoTags(todo_tags, tags, todo.id)])
       IN  IF Tail(l.rest) = <<>>
           THEN Goto(p, "ls_proj",
                     [op |-> "list", in |-> l.in, fetched |-> l.fetched,
                      items |-> items,
                      left |-> {items[i].todo.project_id : i \in DOMAIN items},
                      shown |-> {}])
           ELSE Goto(p, "ls_tags", [l EXCEPT !.rest = Tail(l.rest),
                                             !.items = items])
    /\ UNCHANGED <<store, now, nOps, nTodos, nProjects, goneTodos,
                   goneProjects>>

\* one turn of the loop over the projects: GetProjectByID; the todos of a
\* project that is not found are not shown
ListProjectStep(p) ==
    /\ pc[p] = "ls_proj"
    /\ \E pid \in loc[p].left :
         LET l     == loc[p]
             found == GetProjectByID(projects, pid)
             shown == IF found = NULL THEN l.shown
                      ELSE l.shown \cup
                           {[project |-> The(found),
                             items |-> SelectSeq(l.items,
                                 LAMBDA x : x.todo.project_id = pid)]}
         IN  IF l.left = {pid}
             THEN Return(p, Ok("list", [in |-> l.in, fetched |-> l.fetched,
                                        shown |-> shown]))
             ELSE Goto(p, "ls_proj", [l EXCEPT !.left = l.left \ {pid},
                                              !.shown = shown])
    /\ UNCHANGED <<store, now, nOps, nTodos, nProjects, goneTodos,
                   goneProjects>>

(***************************************************************************)
(* internal/ui: what FormatTodo prints for one todo at time t.  The check  *)
(* mark is for a done todo; a due date is printed as its day, and with     *)
(* "(overdue)" when its day is before the day of t.                        *)
(***************************************************************************)
FormatTodo(todo, tagNames, t) ==
    [check |-> todo.done, id |-> Take(UUIDText(todo.id), 6),
     priority |-> todo.priority, description |-> todo.description,
     due |-> {Truncate(d, Day) : d \in todo.due_date},
     overdue |-> \E d \in todo.due_date :
                    Before(Truncate(d, Day), Truncate(t, Day)),
     tags |-> tagNames]


(***************************************************************************)
(* The inputs the two front ends are driven with.                          *)
(***************************************************************************)
AddTodoInput(description, projectID, priority, dueDate, tagList) ==
    [description |-> description, project_id |-> projectID,
     priority |-> priority, notes |-> NULL, due_date |-> dueDate,
     tags |-> tagList]

AddTodoInputs ==
    {AddTodoInput("buy milk", NULL, NULL, NULL, <<>>),
     AddTodoInput("buy milk", NULL, Some("urgent"), NULL, <<>>),
     AddTodoInput("buy milk", Some("p1"), Some("high"),
                  Some("2025-01-01T12:00:00Z"), <<"ui", "bug">>),
     AddTodoInput("buy milk", Some("nope"), NULL, NULL, <<>>),
     AddTodoInput("buy milk", NULL, NULL, Some("tomorrow"), <<>>)}

AddCmdInput(description, project, priority, due, tagList) ==
    [description |-> description, project |-> project,
     priority |-> priority, notes |-> "", due |-> due, tags |-> tagList]

AddCmdInputs ==
    {AddCmdInput("buy bread", "work", "High", "", <<"Bug">>),
     AddCmdInput("buy bread", "default", "", "2025-01-02", <<>>),
     AddCmdInput("ab", "work", "", "", <<>>),
     AddCmdInput("buy bread", "", "", "", <<>>)}

UpdateTodoInput(todoID, description, priority, dueDate) ==
    [todo_id |-> todoID, description |-> description, priority |-> priority,
     notes |-> NULL, due_date |-> dueDate]

UpdateTodoInputs ==
    {UpdateTodoInput("t1", Some("buy bread"), NULL, NULL),
     UpdateTodoInput("t1", NULL, Some("low"), Some("")),
     UpdateTodoInput("t1", NULL, Some("urgent"), NULL),
     UpdateTodoInput("t1", Some(""), NULL, NULL)}

TodoIDInputs == {TodoIDs[i] : i \in 1..MaxTodos} \cup {"nope"}

ProjectIDInputs == {ProjectIDs[i] : i \in 1..MaxProjects} \cup {"nope"}

ProjectNames == {"default", "work"}

PrefixInputs ==
    {<<"a", "3", "f", "2", "b", "9">>,
     <<"a", "3", "f", "2", "b", "9", "0">>,
     <<"a", "3", "f">>}

PrefixArgs == {<<x>> : x \in PrefixInputs}
              \cup {<<<<"a", "3", "f", "2", "b", "9", "0">>,
                      <<"a", "3", "f", "2", "b", "9", "c">>>>}

McpTagNames == {"bug", "ui"}

ResourceURIs ==
    {"toki://todos", "toki://todos/pending", "toki://todos/overdue",
     "toki://todos/high-priority"}

\* the resources the two-process runs read
ReadURIs == {"toki://todos", "toki://todos/overdue"}

ListTodosInput(projectID, done, priority, tag, overdue) ==
    [project_id |-> projectID, done |-> done, priority |-> priority,
     tag |-> tag, overdue |-> overdue]

\* the list_todos calls of the two-process runs
ReadInputs == {ListTodosInput(NULL, Some(FALSE), NULL, NULL, NULL)}

ListCmdInput(done, priority, tag) ==
    [done |-> done, priority |-> priority, tag |-> tag]

ListCmdInputs == {ListCmdInput(NULL, "", "")}

CliTagNames == {"Bug"}

McpNext ==
    \/ \E in \in AddTodoInputs : handleAddTodo(in)
    \/ \E id \in TodoIDInputs : handleMarkDone(id)
    \/ \E id \in TodoIDInputs : handleMarkUndone(id)
    \/ \E in \in UpdateTodoInputs : handleUpdateTodo(in)
    \/ \E id \in TodoIDInputs : handleDeleteTodo(id)
    \/ \E id \in TodoIDInputs, name \in McpTagNames :
          handleAddTagToTodo(id, name)
    \/ \E id \in TodoIDInputs, name \in McpTagNames :
          handleRemoveTagFromTodo(id, name)
    \/ \E name \in ProjectNames : handleAddProject(name)
    \/ \E id \in ProjectIDInputs : handleDeleteProject(id)
    \/ calculateStats
    \/ \E uri \in ReadURIs : handleTodoResource(uri)
    \/ \E in \in ReadInputs : handleListTodos(in)

CliNext ==
    \/ \E in \in AddCmdInputs : addCmd(in)
    \/ \E args \in PrefixArgs : doneCmd(args)
    \/ \E args \in PrefixArgs : undoneCmd(args)
    \/ \E prefix \in PrefixInputs : removeCmd(prefix)
    \/ \E prefix \in PrefixInputs, tag \in CliTagNames :
          tagAddCmd(prefix, tag)
    \/ \E prefix \in PrefixInputs, tag \in CliTagNames :
          tagRemoveCmd(prefix, tag)
    \/ \E name \in ProjectNames : projectAddCmd(name)
    \/ \E name \in ProjectNames : projectRemoveCmd(name)
    \/ \E in \in ListCmdInputs : listCmd(in)

StepNext ==
    \E p \in Procs :
        \/ getOrCreateDefaultProject(p)
        \/ createTodoWithTags(p)
        \/ TagSelectStep(p)
        \/ TagInsertStep(p)
        \/ TagLinkStep(p)
        \/ NextArg(p)
        \/ UpdateTodoStep(p)
        \/ buildTodoResult(p)
        \/ DeleteTodoStep(p)
        \/ RemoveTagStep(p)
        \/ DeleteProjectStep(p)
        \/ StatsProjectsStep(p)
        \/ buildTodoOutputs(p)
        \/ buildListTodosResult(p)
        \/ ListTagsStep(p)
        \/ ListProjectStep(p)

Next == Tick \/ McpNext \/ CliNext \/ StepNext

Spec == Init /\ [][Next]_vars


(***************************************************************************)
(* ListTodos over any store: the store is drawn from the rows the schema   *)
(* admits (two projects, two tags, up to MaxTodos todos with any flag,     *)
(* priority and tags), and one call lists it under any filters.            *)
(***************************************************************************)
DrawnProjects == {NewProject("p1", "default"), NewProject("p2", "work")}

DrawnTags == {[id |-> 1, name |-> "bug"], [id |-> 2, name |-> "ui"]}

TodoShapes ==
    [project_id : IDsOf(DrawnProjects), done : BOOLEAN,
     priority : {NULL, Some("high")}, tag_ids : SUBSET IDsOf(DrawnTags)]

DrawnTodo(id, shape) ==
    LET todo == [NewTodo(id, shape.project_id, "buy milk", 1)
                   EXCEPT !.priority = shape.priority]
    IN  IF shape.done THEN MarkDone(todo, 1) ELSE todo

InitList ==
    /\ projects = DrawnProjects
    /\ tags = DrawnTags
    /\ tagSeq = Cardinality(DrawnTags)
    /\ \E n \in 0..MaxTodos :
         \E f \in [1..n -> TodoShapes] :
            /\ todos = {DrawnTodo(TodoIDs[i], f[i]) : i \in 1..n}
            /\ todo_tags = SetToBag(UNION {
                   {[todo_id |-> TodoIDs[i], tag_id |-> g] : g \in f[i].tag_ids}
                   : i \in 1..n})
    /\ now = 1
    /\ pc = [p \in Procs |-> "idle"]
    /\ loc = [p \in Procs |-> NoLoc]
    /\ res = [p \in Procs |-> NoRes]
    /\ nOps = [p \in Procs |-> 0]
    /\ nTodos = Cardinality(todos)
    /\ nProjects = Cardinality(DrawnProjects)
    /\ goneTodos = {}
    /\ goneProjects = {}
    /\ justCreated = NULL

ListFilters ==
    [project_id : {NULL} \cup {Some(x) : x \in IDsOf(DrawnProjects)},
     done : {NULL, Some(TRUE), Some(FALSE)},
     priority : {NULL, Some("high"), Some("low")},
     tag : {NULL, Some("bug"), Some("ui")}]

\* one call of db.ListTodos, as fetchFilteredTodos and the list command
\* make it
ListTodosCall(p, f) ==
    /\ pc[p] = "idle"
    /\ res[p] = NoRes
    /\ res' = [res EXCEPT ![p] =
                 Ok("list_todos",
                    [filters |-> f,
                     todos |-> ListTodos(todos, todo_tags, tags, f.project_id,
                                         f.done, f.priority, f.tag)])]
    /\ UNCHANGED <<store, now, pc, loc, nOps, nTodos, nProjects, goneTodos,
                   goneProjects, justCreated>>

ListTodosInputs ==
    {ListTodosInput(NULL, Some(FALSE), NULL, NULL, NULL),
     ListTodosInput(NULL, NULL, Some("high"), NULL, NULL),
     ListTodosInput(NULL, NULL, NULL, NULL, Some(FALSE)),
     ListTodosInput(NULL, NULL, NULL, NULL, Some(TRUE)),
     ListTodosInput(Some("nope"), NULL, NULL, NULL, NULL),
     ListTodosInput(NULL, NULL, Some("urgent"), NULL, NULL)}

\* one call, of db.ListTodos, of list_todos or of a resource, per store
NextList ==
    \/ \E f \in ListFilters : ListTodosCall(MCP, f)
    \/ \E in \in ListTodosInputs :
          res[MCP] = NoRes /\ nOps[MCP] = 0 /\ handleListTodos(in)
    \/ buildListTodosResult(MCP)
    \/ \E uri \in ResourceURIs :
          res[MCP] = NoRes /\ nOps[MCP] = 0 /\ handleTodoResource(uri)
    \/ buildTodoOutputs(MCP)

SpecList == InitList /\ [][NextList]_vars

(***************************************************************************)
(* GetTodoByPrefix over any store: up to MaxTodos of the four identifiers  *)
(* are stored, and one call resolves one of the inputs below.              *)
(***************************************************************************)
ResolverInputs ==
    {<<"a", "3", "f">>,
     <<"a", "3", "f", "2", "b">>,
     <<"a", "3", "f", "2", "b", "9">>,
     <<"a", "3", "f", "2", "b", "9", "0">>,
     <<"a", "3", "f", "2", "b", "9", "0", "1", "-">>,
     <<"a", "3", "f", "2", "c", "7">>,
     <<"5", "d", "0", "0", "b", "9">>,
     <<"f", "f", "f", "f", "f", "f">>,
     <<"A", "3", "F", "2", "B", "9">>,
     <<"A", "3", "F", "2", "B", "9", "0">>,
     <<"a", "3", "f", "2", "_", "_">>,
     <<"_", "_", "_", "_", "_", "_">>,
     <<"%", "%", "%", "%", "%", "%">>,
     <<"5", "%", "b", "9", "1", "a">>}

InitResolver ==
    /\ projects = {NewProject("p1", "default")}
    /\ tags = {}
    /\ tagSeq = 0
    /\ todo_tags = EmptyBag
    /\ \E ids \in SUBSET Range(TodoIDs) :
          /\ Cardinality(ids) <= MaxTodos
          /\ todos = {NewTodo(id, "p1", "buy milk", 1) : id \in ids}
    /\ now = 1
    /\ pc = [p \in Procs |-> "idle"]
    /\ loc = [p \in Procs |-> NoLoc]
    /\ res = [p \in Procs |-> NoRes]
    /\ nOps = [p \in Procs |-> 0]
    /\ nTodos = Cardinality(todos)
    /\ nProjects = 1
    /\ goneTodos = {}
    /\ goneProjects = {}
    /\ justCreated = NULL

\* one call of db.GetTodoByPrefix, as done, undone, remove and tag make it
GetTodoByPrefixCall(p, prefix) ==
    /\ pc[p] = "idle"
    /\ res[p] = NoRes
    /\ res' = [res EXCEPT ![p] =
                 [op |-> "resolve", ok |-> GetTodoByPrefix(todos, prefix).err = "",
                  err |-> GetTodoByPrefix(todos, prefix).err,
                  out |-> [prefix |-> prefix,
                           todo |-> GetTodoByPrefix(todos, prefix).todo,
                           ids |-> GetTodoByPrefix(todos, prefix).ids]]]
    /\ UNCHANGED <<store, now, pc, loc, nOps, nTodos, nProjects, goneTodos,
                   goneProjects, justCreated>>

NextResolver == \E prefix \in ResolverInputs : GetTodoByPrefixCall(CLI, prefix)

SpecResolver == InitResolver /\ [][NextResolver]_vars


(***************************************************************************)
(* The overdue resource over time: the store starts with up to MaxTodos    *)
(* pending todos of the default project, each without a due date or due at *)
(* one of the clock's values; the server marks todos done and undone and   *)
(* reads toki://todos/overdue while time passes.                           *)
(***************************************************************************)
DueDates == {NULL} \cup {Some(t) : t \in 1..MaxTime}

InitOverdue ==
    /\ projects = {NewProject("p1", "default")}
    /\ tags = {}
    /\ tagSeq = 0
    /\ todo_tags = EmptyBag
    /\ \E n \in 0..MaxTodos :
         \E f \in [1..n -> DueDates] :
            todos = {[NewTodo(TodoIDs[i], "p1", "buy milk", 1)
                        EXCEPT !.due_date = f[i]] : i \in 1..n}
    /\ now = 1
    /\ pc = [p \in Procs |-> "idle"]
    /\ loc = [p \in Procs |-> NoLoc]
    /\ res = [p \in Procs |-> NoRes]
    /\ nOps = [p \in Procs |-> 0]
    /\ nTodos = Cardinality(todos)
    /\ nProjects = 1
    /\ goneTodos = {}
    /\ goneProjects = {}
    /\ justCreated = NULL

NextOverdue ==
    \/ Tick
    \/ \E id \in TodoIDInputs : handleMarkDone(id)
    \/ \E id \in TodoIDInputs : handleMarkUndone(id)
    \/ handleTodoResource("toki://todos/overdue")
    \/ UpdateTodoStep(MCP)
    \/ buildTodoResult(MCP)
    \/ buildTodoOutputs(MCP)

SpecOverdue == InitOverdue /\ [][NextOverdue]_vars

(***************************************************************************)
(* Overdue as each front end decides it: over a store of up to MaxTodos   *)
(* todos, done or not and with or without a due date, at any time, the    *)
(* CLI prints the todos with FormatTodo and the server answers one read   *)
(* of toki://todos/overdue, one list_todos with overdue = true or one     *)
(* read of toki://stats.  The clock stands still.                          *)
(***************************************************************************)
InitFormat ==
    /\ projects = {NewProject("p1", "default")}
    /\ tags = {}
    /\ tagSeq = 0
    /\ todo_tags = EmptyBag
    /\ \E n \in 0..MaxTodos :
         \E due \in [1..n -> {NULL} \cup {Some(t) : t \in 1..(MaxTime + 1)}] :
            \E done \in [1..n -> BOOLEAN] :
               todos = {LET todo == [NewTodo(TodoIDs[i], "p1", "buy milk", 1)
                                       EXCEPT !.due_date = due[i]]
                        IN  IF done[i] THEN MarkDone(todo, 1) ELSE todo
                        : i \in 1..n}
    /\ now \in 1..(MaxTime + 1)
    /\ pc = [p \in Procs |-> "idle"]
    /\ loc = [p \in Procs |-> NoLoc]
    /\ res = [p \in Procs |-> NoRes]
    /\ nOps = [p \in Procs |-> 0]
    /\ nTodos = Cardinality(todos)
    /\ nProjects = 1
    /\ goneTodos = {}
    /\ goneProjects = {}
    /\ justCreated = NULL

\* the list command's printing: FormatTodo for each todo, with its tags
PrintTodos(p) ==
    /\ pc[p] = "idle"
    /\ res[p] = NoRes
    /\ res' = [res EXCEPT ![p] =
                 Ok("format",
                    {[todo |-> t.id,
                      line |-> FormatTodo(t, GetTodoTags(todo_tags, tags, t.id),
                                          now)] : t \in todos})]
    /\ UNCHANGED <<store, now, pc, loc, nOps, nTodos, nProjects, goneTodos,
                   goneProjects, justCreated>>

NextFormat ==
    \/ PrintTodos(CLI)
    \/ res[MCP] = NoRes /\ nOps[MCP] = 0
          /\ handleTodoResource("toki://todos/overdue")
    \/ buildTodoOutputs(MCP)
    \/ res[MCP] = NoRes /\ nOps[MCP] = 0
          /\ handleListTodos(ListTodosInput(NULL, NULL, NULL, NULL, Some(TRUE)))
    \/ buildListTodosResult(MCP)
    \/ res[MCP] = NoRes /\ nOps[MCP] = 0 /\ calculateStats
    \/ StatsProjectsStep(MCP)

SpecFormat == InitFormat /\ [][NextFormat]_vars

(***************************************************************************)
(* The connection pool.  InitDB runs PRAGMA foreign_keys = ON with db.Exec *)
(* on the *sql.DB, a pool of connections: the pragma is set on the one     *)
(* connection that statement ran on.  The pool opens another connection    *)
(* when that one is in use (tool calls of the server that overlap) or is   *)
(* gone, and on it the foreign keys of the schema are not enforced, which  *)
(* is SQLite's default: no check on INSERT, no cascade on DELETE.  Which   *)
(* connection a statement of the server runs on is the pool's choice: each *)
(* of the four statements below is the unenforced form of the statement    *)
(* at the same place.  The store starts with a project, a todo in it and a *)
(* tag on the todo.                                                        *)
(***************************************************************************)
\* createTodoWithTags: INSERT INTO todos, only the primary key checked
createTodoUnenforced(p) ==
    /\ pc[p] = "add_create"
    /\ LET l    == loc[p]
           todo == [NewTodo(l.todo_id, l.project_id, l.description, now)
                      EXCEPT !.priority = l.priority, !.notes = l.notes,
                             !.due_date = l.due]
           next == [op |-> "add_todo", todo |-> todo, tags |-> l.tags,
                    rest |-> l.tags]
       IN  IF \A t \in todos : t.id # todo.id
           THEN /\ todos' = todos \cup {todo}
                /\ IF l.tags = <<>>
                   THEN AfterTags(p, next)
                   ELSE Goto(p, "tag_sel", next)
           ELSE /\ Return(p, Err("add_todo", "create_todo_failed", l.todo_id))
                /\ UNCHANGED todos
    /\ UNCHANGED <<projects, tags, tagSeq, todo_tags, now, nOps, nTodos,
                   nProjects, goneTodos, goneProjects>>

\* AddTagToTodo: INSERT OR IGNORE INTO todo_tags, only the primary key
\* checked
TagLinkUnenforced(p) ==
    /\ pc[p] = "tag_link"
    /\ LET l    == loc[p]
           row  == [todo_id |-> l.todo.id, tag_id |-> l.tag_id]
           next == [op |-> l.op, todo |-> l.todo, tags |-> l.tags,
                    rest |-> Tail(l.rest)]
       IN  /\ todo_tags' = InsertOrIgnoreTodoTag(todo_tags, row)
           /\ IF next.rest = <<>>
              THEN AfterTags(p, next)
              ELSE Goto(p, "tag_sel", next)
    /\ UNCHANGED <<projects, todos, tags, tagSeq, now, nOps, nTodos,
                   nProjects, goneTodos, goneProjects>>

\* db.DeleteTodo: DELETE FROM todos WHERE id = ?, without the cascade
DeleteTodoUnenforced(p) ==
    /\ pc[p] = "del"
    /\ todos' = DeleteTodo(todos, loc[p].todo_id)
    /\ goneTodos' = goneTodos \cup (IDsOf(todos) \ IDsOf(todos'))
    /\ Return(p, Ok("delete_todo", loc[p].todo_id))
    /\ UNCHANGED <<projects, tags, tagSeq, todo_tags, now, nOps, nTodos,
                   nProjects, goneProjects>>

\* db.DeleteProject: DELETE FROM projects WHERE id = ?, without the cascade
DeleteProjectUnenforced(p) ==
    /\ pc[p] = "delproj"
    /\ projects' = DeleteProject(projects, loc[p].project_id)
    /\ goneProjects' = goneProjects \cup (IDsOf(projects) \ IDsOf(projects'))
    /\ Return(p, Ok("delete_project", loc[p].project_id))
    /\ UNCHANGED <<todos, tags, tagSeq, todo_tags, now, nOps, nTodos,
                   nProjects, goneTodos>>

InitPool ==
    /\ projects = {NewProject("p1", "default")}
    /\ todos = {NewTodo("t1", "p1", "buy milk", 1)}
    /\ tags = {[id |-> 1, name |-> "bug"]}
    /\ tagSeq = 1
    /\ todo_tags = SetToBag({[todo_id |-> "t1", tag_id |-> 1]})
    /\ now = 1
    /\ pc = [p \in Procs |-> "idle"]
    /\ loc = [p \in Procs |-> NoLoc]
    /\ res = [p \in Procs |-> NoRes]
    /\ nOps = [p \in Procs |-> 0]
    /\ nTodos = 1
    /\ nProjects = 1
    /\ goneTodos = {}
    /\ goneProjects = {}
    /\ justCreated = NULL

NextPool ==
    \/ \E in \in AddTodoInputs : handleAddTodo(in)
    \/ \E id \in TodoIDInputs : handleDeleteTodo(id)
    \/ \E id \in TodoIDInputs, name \in McpTagNames :
          handleAddTagToTodo(id, name)
    \/ \E id \in ProjectIDInputs : handleDeleteProject(id)
    \/ \E prefix \in PrefixInputs : removeCmd(prefix)
    \/ \E name \in ProjectNames : projectRemoveCmd(name)
    \/ \E prefix \in PrefixInputs, tag \in CliTagNames :
          tagAddCmd(prefix, tag)
    \/ \E p \in Procs :
          \/ getOrCreateDefaultProject(p)
          \/ createTodoWithTags(p)
          \/ TagSelectStep(p)
          \/ TagInsertStep(p)
          \/ TagLinkStep(p)
          \/ buildTodoResult(p)
          \/ DeleteTodoStep(p)
          \/ DeleteProjectStep(p)
    \/ createTodoUnenforced(MCP)
    \/ TagLinkUnenforced(MCP)
    \/ DeleteTodoUnenforced(MCP)
    \/ DeleteProjectUnenforced(MCP)

SpecPool == InitPool /\ [][NextPool]_vars

(***************************************************************************)
(* Statements under the store's lock.  InitDB opens the file with the      *)
(* driver's defaults and the code wraps no statement in a retry: a write   *)
(* statement holds the store's write lock from its start to its end, and a *)
(* statement of the other process that meets the lock either waits for it  *)
(* or, when the driver gives up, fails with SQLITE_BUSY, which every       *)
(* command and handler returns as its error.  Here a write takes two       *)
(* steps: LockStep takes the lock, the statement's own step writes and     *)
(* releases it.                                                            *)
(***************************************************************************)
WriteLabels == {"upd", "del"}

\* process p is inside a write statement
HoldsLock(p) == pc[p] \in WriteLabels /\ "locked" \in DOMAIN loc[p]

\* the other process is inside a write statement
Locked(p) == \E q \in Procs \ {p} : HoldsLock(q)

\* the write statement p is at starts: it takes the write lock
LockStep(p) ==
    /\ pc[p] \in WriteLabels
    /\ ~HoldsLock(p)
    /\ ~Locked(p)
    /\ Goto(p, pc[p], loc[p] @@ [locked |-> TRUE])
    /\ UNCHANGED <<store, now, nOps, nTodos, nProjects, goneTodos,
                   goneProjects>>

\* the statement p is at meets the lock and the driver gives up: the
\* command or call returns the error
BusyStep(p) ==
    /\ pc[p] # "idle"
    /\ ~HoldsLock(p)
    /\ Locked(p)
    /\ Return(p, Err(loc[p].op, "database_locked", <<>>))
    /\ UNCHANGED <<store, now, nOps, nTodos, nProjects, goneTodos,
                   goneProjects>>

\* the same for the first statement of a command or call
BusyBegin(p, op) ==
    /\ Begin(p)
    /\ Locked(p)
    /\ Return(p, Err(op, "database_locked", <<>>))
    /\ UNCHANGED <<store, now, nTodos, nProjects, goneTodos, goneProjects>>

InitBusy ==
    /\ projects = {NewProject("p1", "default")}
    /\ tags = {}
    /\ tagSeq = 0
    /\ todo_tags = EmptyBag
    /\ \E n \in 0..MaxTodos :
          todos = {NewTodo(TodoIDs[i], "p1", "buy milk", 1) : i \in 1..n}
    /\ now = 1
    /\ pc = [p \in Procs |-> "idle"]
    /\ loc = [p \in Procs |-> NoLoc]
    /\ res = [p \in Procs |-> NoRes]
    /\ nOps = [p \in Procs |-> 0]
    /\ nTodos = Cardinality(todos)
    /\ nProjects = 1
    /\ goneTodos = {}
    /\ goneProjects = {}
    /\ justCreated = NULL

\* the next statement of the command or call that process p is in
ProcStep(p) ==
    \/ LockStep(p)
    \/ BusyStep(p)
    \/ HoldsLock(p) /\ UpdateTodoStep(p)
    \/ HoldsLock(p) /\ DeleteTodoStep(p)
    \/ ~Locked(p) /\ NextArg(p)
    \/ ~Locked(p) /\ buildTodoResult(p)
    \/ ~Locked(p) /\ buildTodoOutputs(p)

NextBusy ==
    \/ \E id \in TodoIDInputs : ~Locked(MCP) /\ handleMarkDone(id)
    \/ \E id \in TodoIDInputs : ~Locked(MCP) /\ handleDeleteTodo(id)
    \/ ~Locked(MCP) /\ handleTodoResource("toki://todos")
    \/ \E args \in PrefixArgs : ~Locked(CLI) /\ doneCmd(args)
    \/ \E prefix \in PrefixInputs : ~Locked(CLI) /\ removeCmd(prefix)
    \/ \E op \in {"mark_done", "delete_todo", "read_todos"} :
          BusyBegin(MCP, op)
    \/ \E op \in {"mark_done", "delete_todo"} : BusyBegin(CLI, op)
    \/ \E p \in Procs : ProcStep(p)

SpecBusy == InitBusy /\ [][NextBusy]_vars

\* each of the two processes keeps running: a statement that can execute
\* does
SpecBusyFair == SpecBusy /\ \A p \in Procs : WF_vars(ProcStep(p))

(***************************************************************************)
(* Properties                                                              *)
(***************************************************************************)
\* C1: in every reachable state every stored todo has done = TRUE exactly
\* when its completed_at is set.
C1_DoneIffCompletedAt ==
    \A t \in todos : t.done <=> (t.completed_at # NULL)

\* a todo is stored as done, with its completion time
C1_Witness ==
    \E t \in todos : t.done /\ t.completed_at # NULL /\ t.updated_at # ZeroTime

Satisfying(f) ==
    {t \in todos :
        /\ f.project_id # NULL => t.project_id = The(f.project_id)
        /\ f.done # NULL => t.done = The(f.done)
        /\ f.priority # NULL => t.priority = f.priority
        /\ f.tag # NULL =>
              \E r \in DOMAIN todo_tags, g \in tags :
                 r.todo_id = t.id /\ r.tag_id = g.id /\ g.name = The(f.tag)}

\* C3: for any store and any combination of the four optional filters,
\* ListTodos returns exactly the todos that satisfy every supplied filter,
\* each of them once; with no filter it returns every todo.
C3_ListTodosExact ==
    \A p \in Procs :
       res[p].op = "list_todos" =>
          LET f   == res[p].out.filters
              out == res[p].out.todos
          IN  /\ Range(out) = Satisfying(f)
              /\ Len(out) = Cardinality(Satisfying(f))
              /\ (f.project_id = NULL /\ f.done = NULL /\ f.priority = NULL
                    /\ f.tag = NULL) => Range(out) = todos

\* a listing under a tag and a priority filter that returns a todo
\* carrying two tags and leaves another todo out
C3_Witness ==
    \E p \in Procs :
       /\ res[p].op = "list_todos"
       /\ res[p].out.filters.tag # NULL
       /\ res[p].out.filters.priority # NULL
       /\ \E i \in DOMAIN res[p].out.todos :
             Cardinality({r \in DOMAIN todo_tags :
                            r.todo_id = res[p].out.todos[i].id}) >= 2
       /\ Range(res[p].out.todos) # todos


\* the stored todos whose identifier, in its textual form, starts with x
StartingWith(x) == {t \in todos : HasPrefix(UUIDText(t.id), x)}

\* C4: resolution classifies every input by the number of stored todos
\* whose identifier starts with it: shorter than MinPrefixLen is a
\* validation error; otherwise one such todo is returned, none is
\* not-found, two or more is the ambiguous error listing the first
\* ShortIDLen characters of each.
C4_ResolvesByLiteralPrefix ==
    \A p \in Procs :
       res[p].op = "resolve" =>
          LET x == res[p].out.prefix
              m == StartingWith(x)
          IN  IF Len(x) < MinPrefixLen
              THEN res[p].err = "prefix_too_short"
              ELSE IF Cardinality(m) = 1
              THEN res[p].err = "" /\ res[p].out.todo = m
              ELSE IF m = {}
              THEN res[p].err = "no_match"
              ELSE /\ res[p].err = "ambiguous"
                   /\ res[p].out.ids =
                         {Take(UUIDText(t.id), ShortIDLen) : t \in m}


\* process p performs the UpdateTodo statement of operation op on todo id
\* in this step
WritesBack(p, op, id) ==
    /\ pc[p] = "upd" /\ pc'[p] # "upd"
    /\ loc[p].op = op /\ loc[p].todo.id = id

\* C5: the done flag of a stored todo changes only from FALSE to TRUE by
\* the write of a mark-done and from TRUE to FALSE by the write of a
\* mark-undone, and a todo that was deleted (directly or with its project)
\* is never stored again.
C5_TaskStateMachine ==
    [][/\ \A t \in todos, u \in todos' :
             (u.id = t.id /\ u.done # t.done) =>
                \E p \in Procs :
                   WritesBack(p, IF u.done THEN "mark_done" ELSE "mark_undone",
                              t.id)
       /\ \A u \in todos' : u.id \notin goneTodos']_vars


\* process p starts a command or call in this step
Begins(p) == nOps'[p] # nOps[p]

\* C6: adding a tag to a todo that already carries it succeeds and leaves
\* todo_tags as it was; after any successful AddTagToTodo the pair has
\* exactly one row, and no (todo, tag) pair ever has more than one.
C6_AddTagIdempotent ==
    [][/\ \A r \in DOMAIN todo_tags' : CopiesIn(r, todo_tags') <= 1
       /\ \A p \in Procs :
             (pc[p] = "tag_link" /\ pc'[p] # "tag_link") =>
                LET row == [todo_id |-> loc[p].todo.id,
                            tag_id |-> loc[p].tag_id]
                IN  /\ BagIn(row, todo_tags) =>
                          todo_tags' = todo_tags /\ res'[p].err = ""
                    /\ res'[p].err = "" => CopiesIn(row, todo_tags') = 1]_vars

\* both processes have added the same tag to the same todo, both calls
\* succeeded, and the todo carries the tag once
C6_Witness ==
    /\ res[CLI].op = "add_tag" /\ res[CLI].ok
    /\ res[MCP].op = "add_tag" /\ res[MCP].ok
    /\ res[CLI].out.todo.id = res[MCP].out.todo.id
    /\ res[CLI].out.tags = <<"bug">>
    /\ res[MCP].out.tags = <<"bug">>
    /\ \E g \in tags :
          /\ g.name = "bug"
          /\ CopiesIn([todo_id |-> res[CLI].out.todo.id, tag_id |-> g.id],
                      todo_tags) = 1

\* C7: every result of calculateStats has total = pending + completed,
\* whatever the other process writes between its two reads.
C7_StatsTotal ==
    \A p \in Procs :
       res[p].op = "stats" =>
          res[p].out.total = res[p].out.pending + res[p].out.completed

\* a stats result that counts a todo whose project the other process
\* deleted between the two reads
C7_Witness ==
    \E p \in Procs :
       /\ res[p].op = "stats"
       /\ res[p].out.total >= 1
       /\ res[p].out.by_project = {}
       /\ todos = {}


\* C8: no two stored projects have the same name; a CreateProject for a
\* name that is taken (by add_project, project add, or the creation of
\* the "default" project) fails and leaves projects as it was.
C8_UniqueProjectNames ==
    [][/\ \A a, b \in projects' : a.name = b.name => a = b
       /\ \A p \in Procs :
             (Begins(p) /\ res'[p].op = "add_project") =>
                LET name == IF res'[p].ok THEN res'[p].out.name
                            ELSE res'[p].out
                IN  GetProjectByName(projects, name) # NULL =>
                       /\ res'[p].err = "create_project_failed"
                       /\ projects' = projects
       /\ \A p \in Procs :
             (/\ pc[p] = "add_default" /\ pc'[p] # "add_default"
              /\ GetProjectByName(projects, "default") # NULL) =>
                /\ res'[p].err = "create_default_failed"
                /\ projects' = projects]_vars

\* a project creation was refused because a stored project has the name
C8_Witness ==
    \E p \in Procs :
       /\ res[p].op = "add_project"
       /\ res[p].err = "create_project_failed"
       /\ GetProjectByName(projects, res[p].out) # NULL

\* C9: an add_todo without project_id never fails on the "default"
\* project, and at most one project named "default" is stored.
C9_DefaultProjectAlwaysThere ==
    /\ Cardinality(GetProjectByName(projects, "default")) <= 1
    /\ \A p \in Procs : res[p].err # "create_default_failed"

\* C10: the DELETE of RemoveTagFromTodo leaves tags, todos and projects as
\* they were, removes no todo_tags row other than the one of the given
\* todo and the tag of the given name, and reports no error whether or
\* not the todo carried the tag.
C10_RemoveTagFrame ==
    [][\A p \in Procs :
          (pc[p] = "untag" /\ pc'[p] # "untag") =>
             LET pair(r) == /\ r.todo_id = loc[p].todo.id
                            /\ \E g \in tags :
                                  g.id = r.tag_id /\ g.name = loc[p].name
             IN  /\ tags' = tags /\ todos' = todos /\ projects' = projects
                 /\ DOMAIN todo_tags' \subseteq DOMAIN todo_tags
                 /\ \A r \in DOMAIN todo_tags :
                       ~pair(r) => /\ BagIn(r, todo_tags')
                                   /\ CopiesIn(r, todo_tags')
                                        = CopiesIn(r, todo_tags)
                 /\ Cardinality(DOMAIN todo_tags \ DOMAIN todo_tags') <= 1
                 /\ res'[p].err = ""]_vars

\* the tag "bug" a todo was created with has been removed from it by the
\* other process: the association is gone, the tag is still stored, and
\* the todo's other tag is still on it
C10_Witness ==
    /\ res[MCP].op = "add_todo" /\ res[MCP].ok
    /\ res[MCP].out.tags = <<"ui", "bug">>
    /\ res[CLI].op = "remove_tag" /\ res[CLI].ok
    /\ res[CLI].out.tags = <<"bug">>
    /\ res[CLI].out.todo.id = res[MCP].out.todo.id
    /\ GetTagByName(tags, "bug") # NULL
    /\ GetTodoTags(todo_tags, tags, res[MCP].out.todo.id) = <<"ui">>


\* process p returns from operation op in this step
Returns(p, op) ==
    /\ Begins(p) \/ pc[p] # "idle"
    /\ pc'[p] = "idle"
    /\ res'[p].op = op

\* the names of the tags the store associates with todo id
StoredTagNames(tg, tt, id) ==
    {g.name : g \in {x \in tg : BagIn([todo_id |-> id, tag_id |-> x.id], tt)}}

\* C11: when the server's client creates a todo with add_todo and then, as
\* its next call and with no command running beside it, reads toki://todos,
\* the read returns that todo once, and the description, the priority and
\* the set of tags are the same in add_todo's answer, in the entry the read
\* returns and in the store.
C11_RoundTrip ==
    [][(/\ Returns(MCP, "read_todos")
        /\ res'[MCP].out.uri = "toki://todos"
        /\ justCreated # NULL
        /\ nOps[CLI] = 0)
       => LET c       == The(justCreated)
              entries == {i \in DOMAIN res'[MCP].out.data :
                            res'[MCP].out.data[i].id = c.todo.id}
              stored  == {t \in todos' : t.id = c.todo.id}
          IN  /\ Cardinality(entries) = 1
              /\ Cardinality(stored) = 1
              /\ \A i \in entries :
                    LET o == res'[MCP].out.data[i]
                    IN  /\ o.description = c.todo.description
                        /\ o.priority = c.todo.priority
                        /\ Range(o.tags) = Range(c.tags)
              /\ \A t \in stored :
                    /\ t.description = c.todo.description
                    /\ t.priority = c.todo.priority
                    /\ StoredTagNames(tags', todo_tags', t.id) = Range(c.tags)
      ]_vars

\* the server's three calls were add_project, add_todo with priority
\* "high" and the tags "ui" and "bug", and the read of toki://todos, which
\* returned the todo with both tags
C11_Witness ==
    /\ nOps = [p \in Procs |-> IF p = MCP THEN 3 ELSE 0]
    /\ res[MCP].op = "read_todos"
    /\ res[MCP].out.uri = "toki://todos"
    /\ \E i \in DOMAIN res[MCP].out.data :
          /\ res[MCP].out.data[i].priority = Some("high")
          /\ res[MCP].out.data[i].tags = <<"bug", "ui">>


\* the server starts a read of resource uri in this step: its ListTodos
\* statement runs
Fetches(uri) ==
    /\ Begins(MCP)
    /\ IF pc'[MCP] = "idle"
       THEN res'[MCP].op = "read_todos" /\ res'[MCP].out.uri = uri
       ELSE loc'[MCP].op = "read_todos" /\ loc'[MCP].uri = uri

\* the list that read has fetched
Fetched == IF pc'[MCP] = "idle" THEN res'[MCP].out.fetched
           ELSE loc'[MCP].fetched

\* C12: a read of toki://todos/overdue fetches, each once, exactly the
\* stored todos that are not done and whose due date is set and strictly
\* before the time of the read, and the entries it returns are those of the
\* todos it fetched.
C12_OverdueExact ==
    [][/\ Fetches("toki://todos/overdue") =>
            /\ {x.id : x \in Range(Fetched)} =
                  {t.id : t \in {x \in todos : /\ ~x.done
                                                /\ x.due_date # NULL
                                                /\ The(x.due_date) < now}}
            /\ \A i, j \in DOMAIN Fetched :
                  Fetched[i].id = Fetched[j].id => i = j
       /\ (Returns(MCP, "read_todos")
             /\ res'[MCP].out.uri = "toki://todos/overdue") =>
            /\ Len(res'[MCP].out.data) = Len(res'[MCP].out.fetched)
            /\ \A i \in DOMAIN res'[MCP].out.data :
                  res'[MCP].out.data[i].id = res'[MCP].out.fetched[i].id
      ]_vars

\* at time 2 a read of the overdue resource has returned a pending todo
\* that was due at 1 and has left out one due at 1 that was marked done
C12_Witness ==
    /\ res[MCP].op = "read_todos"
    /\ res[MCP].out.uri = "toki://todos/overdue"
    /\ now = 2
    /\ nOps[MCP] = 2
    /\ \E t \in todos :
          /\ t.done /\ t.due_date = Some(1)
          /\ \A i \in DOMAIN res[MCP].out.data : res[MCP].out.data[i].id # t.id
    /\ \E i \in DOMAIN res[MCP].out.data :
          /\ ~res[MCP].out.data[i].done
          /\ res[MCP].out.data[i].due_date = Some(1)


\* the ids of the entries of an answer, in their order
EntryIDs(data) == [i \in DOMAIN data |-> data[i].id]

\* C13: over one store, toki://todos/pending returns exactly the todos
\* that list_todos returns for done=false, and toki://todos/high-priority
\* exactly those that list_todos returns for priority="high": a read's
\* entries are those fetchFilteredTodos gives for that input, and the
\* entries of such a list_todos call are those fetchAndFilterTodos gives
\* for the resource's filters.
C13_ResourcesAreListFilters ==
    LET pending == ListTodosInput(NULL, Some(FALSE), NULL, NULL, NULL)
        high    == ListTodosInput(NULL, NULL, Some("high"), NULL, NULL)
        asTool(in) ==
            EntryIDs(fetchFilteredTodos(todos, todo_tags, tags, NULL, in, now))
        asResource(uri) ==
            EntryIDs(fetchAndFilterTodos(todos, todo_tags, tags, NULL,
                                         ResourceFilters(uri).done,
                                         ResourceFilters(uri).priority, NULL,
                                         ResourceFilters(uri).overdue, now))
        r == res[MCP]
    IN  /\ (r.op = "read_todos" /\ r.out.uri = "toki://todos/pending")
              => EntryIDs(r.out.data) = asTool(pending)
        /\ (r.op = "read_todos" /\ r.out.uri = "toki://todos/high-priority")
              => EntryIDs(r.out.data) = asTool(high)
        /\ (r.op = "list_tool" /\ r.ok /\ r.out.in = pending)
              => EntryIDs(r.out.data) = asResource("toki://todos/pending")
        /\ (r.op = "list_tool" /\ r.ok /\ r.out.in = high)
              => EntryIDs(r.out.data) = asResource("toki://todos/high-priority")

\* over a store with a completed todo and a pending one, a read of
\* toki://todos/pending has returned the pending one alone
C13_Witness ==
    /\ res[MCP].op = "read_todos"
    /\ res[MCP].out.uri = "toki://todos/pending"
    /\ Len(res[MCP].out.data) = 1
    /\ \E t \in todos : t.done
    /\ \E t \in todos : ~t.done /\ t.priority = Some("high")


\* C15: every tool call that fails ends with an error-flagged result of a
\* call that completed; none fails as a call, with the protocol's error in
\* place of a result.
C15_FailuresAreResults ==
    ~res[MCP].ok => res[MCP].err # "invalid_params"


\* the operations that read the list of todos
ReadOps == {"read_todos", "list_tool", "stats", "list"}

\* process p starts a read in this step: its ListTodos statement runs
StartsRead(p) ==
    /\ Begins(p)
    /\ IF pc'[p] = "idle" THEN res'[p].ok /\ res'[p].op \in ReadOps
       ELSE loc'[p].op \in ReadOps

\* the list that read has got from ListTodos and its filter
ListRead(p) ==
    IF pc'[p] = "idle" THEN res'[p].out.fetched
    ELSE IF loc'[p].op = "stats" THEN loc'[p].allTodos
    ELSE loc'[p].fetched

\* that read lists every todo of the store
Unfiltered(p) ==
    IF pc'[p] = "idle"
    THEN res'[p].op = "list"
         \/ (res'[p].op = "read_todos" /\ res'[p].out.uri = "toki://todos")
    ELSE loc'[p].op \in {"stats", "list"}
         \/ (loc'[p].op = "read_todos" /\ loc'[p].uri = "toki://todos")

\* process p has made no call that could have written a todo after a
\* write of the other process completed: none, or one that only added
\* a todo or a project or read
NoLaterWrite(p) ==
    \/ nOps[p] = 0
    \/ nOps[p] = 1 /\ res[p].op \in {"add_todo", "add_project"} \cup ReadOps

\* C14: a read that one front end starts when the last call of the other
\* has completed a write reflects that write: a todo the other front end
\* has added, marked or updated is listed as that call left it (by a read
\* without filter it is listed), and one it has deleted, alone or with its
\* project, is not listed.
C14_ReadsSeeCompletedWrites ==
    [][\A r \in Procs, w \in Procs :
         (/\ r # w
          /\ StartsRead(r)
          /\ NoLaterWrite(r)
          /\ pc[w] = "idle"
          /\ res[w].ok)
         => LET list == ListRead(r)
                wr   == res[w]
            IN  /\ wr.op \in {"add_todo", "mark_done", "mark_undone",
                              "update_todo"} =>
                     /\ \A i \in DOMAIN list :
                           list[i].id = wr.out.todo.id => list[i] = wr.out.todo
                     /\ Unfiltered(r) =>
                           \E i \in DOMAIN list : list[i].id = wr.out.todo.id
                /\ wr.op = "delete_todo" =>
                     \A i \in DOMAIN list : list[i].id # wr.out
                /\ wr.op = "delete_project" =>
                     \A i \in DOMAIN list : list[i].project_id # wr.out
      ]_vars

\* the server has added a todo, the done command has marked it, and the
\* server's next call, a read of toki://todos, has returned it as done
C14_Witness ==
    /\ nOps = [p \in Procs |-> IF p = MCP THEN 2 ELSE 1]
    /\ res[CLI].op = "mark_done" /\ res[CLI].ok
    /\ res[MCP].op = "read_todos"
    /\ res[MCP].out.uri = "toki://todos"
    /\ \E i \in DOMAIN res[MCP].out.data :
          /\ res[MCP].out.data[i].id = res[CLI].out.todo.id
          /\ res[MCP].out.data[i].done


\* the errors with which the arguments of a tool call are rejected
ValidationErrors ==
    {"invalid_params", "invalid_project_id", "invalid_todo_id",
     "invalid_priority", "invalid_due_date"}

\* C16: a tool call whose arguments fail validation writes nothing: the
\* step in which the call is rejected leaves projects, todos, tags and
\* associations as they were (and it is the first step of the call that
\* could have written).
C16_ValidationBeforeWrites ==
    [][(\E op \in {"add_todo", "update_todo", "mark_done", "mark_undone",
                   "delete_todo", "add_tag", "remove_tag", "list_tool",
                   "delete_project"} :
           /\ Returns(MCP, op)
           /\ ~res'[MCP].ok
           /\ res'[MCP].err \in ValidationErrors)
       => UNCHANGED store]_vars


\* what the last call of process p, a listing, has shown: each todo with
\* the set of its tags
Observed(p) ==
    IF res[p].op = "list"
    THEN {[id |-> it.todo.id, tags |-> Range(it.tags)] :
            it \in UNION {Range(x.items) : x \in res[p].out.shown}}
    ELSE IF res[p].op = "read_todos"
    THEN {[id |-> e.id, tags |-> Range(e.tags)] : e \in Range(res[p].out.data)}
    ELSE {}

\* the todo that process p is creating or, with its last call, has
\* created, and the tags of that call
Creating(p) ==
    IF pc[p] \in {"tag_sel", "tag_ins", "tag_link"} /\ loc[p].op = "add_todo"
    THEN {[id |-> loc[p].todo.id, tags |-> Range(loc[p].tags)]}
    ELSE IF pc[p] = "idle" /\ res[p].op = "add_todo" /\ res[p].ok
    THEN {[id |-> res[p].out.todo.id, tags |-> Range(res[p].out.tags)]}
    ELSE {}

\* no process whose only call was a listing has been shown a todo of the
\* other process's add with fewer tags than that add gives it
NoPartialTags ==
    \A r \in Procs, w \in Procs :
       (r # w /\ nOps[r] = 1 /\ pc[r] = "idle") =>
          \A e \in Observed(r), c \in Creating(w) :
             e.id = c.id => c.tags \subseteq e.tags

\* C17: creating a todo with its tags is one atomic write: when the add
\* returns an error after its CreateTodo, the todo is not in the store, and
\* no other process is ever shown the todo with only part of its tags.
C17_CreateWithTagsAtomic ==
    [][/\ \A p \in Procs :
            (/\ pc[p] \in {"tag_sel", "tag_ins", "tag_link"}
             /\ loc[p].op = "add_todo"
             /\ pc'[p] = "idle" /\ ~res'[p].ok)
            => loc[p].todo.id \notin IDsOf(todos')
       /\ NoPartialTags'
      ]_vars


\* C18: the write of each update_todo, mark-done and mark-undone that
\* finds its todo stored replaces the todo's updated_at with the time of
\* the operation: the new value is not after the clock, and it is later
\* than the value stored before (equal at most when that value is the
\* present clock value).
C18_UpdatedAtRefreshed ==
    [][\A p \in Procs, t \in todos, u \in todos' :
         (/\ u.id = t.id
          /\ \E op \in {"update_todo", "mark_done", "mark_undone"} :
                WritesBack(p, op, t.id))
         => /\ u.updated_at <= now
            /\ u.updated_at >= t.updated_at
            /\ t.updated_at < now => u.updated_at > t.updated_at
      ]_vars


\* C19: the completed_at of a stored todo changes only in a step that
\* changes its done flag: it is set when done goes from FALSE to TRUE and
\* cleared when done goes from TRUE to FALSE, and a mark-done of a todo
\* that is done already, or an update, leaves it as it was.
C19_CompletedAtFollowsDone ==
    [][\A t \in todos, u \in todos' :
         u.id = t.id =>
            /\ u.done = t.done => u.completed_at = t.completed_at
            /\ (~t.done /\ u.done) => u.completed_at # NULL
            /\ (t.done /\ ~u.done) => u.completed_at = NULL
      ]_vars


\* C20: in every reachable state every stored todo has a description that
\* is not empty and not below the minimum length: an add or an update that
\* carries such a description is rejected and writes nothing, through the
\* server as through the CLI.
C20_DescriptionsNonEmpty ==
    \A t \in todos :
       t.description # "" /\ StrLen(t.description) >= MinDescLen


\* C21: a stored todo counts as a match for a resolver input only if the
\* text of its identifier starts with the input, character for character:
\* the todo a resolution returns starts with the input, and so does every
\* todo that the ambiguous error lists.
C21_MatchesOnlyLiteralPrefix ==
    \A p \in Procs :
       res[p].op = "resolve" =>
          LET x == res[p].out.prefix
          IN  /\ \A t \in res[p].out.todo : HasPrefix(UUIDText(t.id), x)
              /\ \A s \in res[p].out.ids :
                    \E t \in StartingWith(x) :
                       s = Take(UUIDText(t.id), ShortIDLen)


\* C22: the list command run with neither --done nor --pending shows only
\* pending todos: no todo it prints is done.
C22_DefaultListPendingOnly ==
    (res[CLI].op = "list" /\ res[CLI].out.in.done = NULL) =>
       \A x \in res[CLI].out.shown :
          \A i \in DOMAIN x.items : ~x.items[i].todo.done


\* C23: update_todo changes only the fields its call supplies (among
\* description, priority, notes and due date) and updated_at.  The copy it
\* makes when it reads the todo differs from the stored row in nothing
\* else; its write stores that copy and leaves every other todo, the
\* projects, the tags and the associations as they were.
C23_UpdateFrame ==
    [][/\ (Begins(MCP) /\ pc'[MCP] = "upd" /\ loc'[MCP].op = "update_todo")
            => LET in == loc'[MCP].in
                   c  == loc'[MCP].todo
               IN  \E t \in todos :
                      /\ t.id = in.todo_id /\ c.id = t.id
                      /\ c.project_id = t.project_id
                      /\ c.created_at = t.created_at
                      /\ c.done = t.done
                      /\ c.completed_at = t.completed_at
                      /\ in.description = NULL => c.description = t.description
                      /\ in.priority = NULL => c.priority = t.priority
                      /\ in.notes = NULL => c.notes = t.notes
                      /\ in.due_date = NULL => c.due_date = t.due_date
       /\ \A p \in Procs :
            (pc[p] = "upd" /\ pc'[p] # "upd" /\ loc[p].op = "update_todo")
            => LET id == loc[p].todo.id
               IN  /\ projects' = projects /\ tags' = tags
                   /\ todo_tags' = todo_tags
                   /\ {t \in todos' : t.id # id} = {t \in todos : t.id # id}
                   /\ \A u \in todos' : u.id = id => u = loc[p].todo
                   /\ IDsOf(todos') = IDsOf(todos)
      ]_vars

\* an update_todo that supplied the priority has returned for a todo that
\* was done: the stored todo has the new priority, is still done with its
\* completion time, and has the description it had
C23_Witness ==
    /\ res[MCP].op = "update_todo" /\ res[MCP].ok
    /\ \E t \in todos :
          /\ t.id = res[MCP].out.todo.id
          /\ t.priority = Some("low")
          /\ t.done /\ t.completed_at # NULL
          /\ t.description = "buy milk"
          /\ t.updated_at # ZeroTime


\* C24: every command, tool call and resource read that has started comes
\* to its end, with its result or its error, also when its statements meet
\* the write lock of the other process: a process that is in a command or
\* call is eventually idle again.
C24_InvocationsTerminate ==
    \A p \in Procs : (pc[p] # "idle") ~> (pc[p] = "idle")

\* a command or call has ended with the lock's error while the other
\* process was inside its write statement
C24_Witness ==
    \E p \in Procs, q \in Procs :
       /\ pc[p] = "idle"
       /\ res[p].err = "database_locked"
       /\ HoldsLock(q)


\* C25: overdue is one predicate everywhere: over the same store at the
\* same time, the todos that FormatTodo marks "(overdue)" are exactly those
\* the overdue resource returns and those list_todos returns under
\* overdue = true, and their number is the overdue count of the stats.
C25_OneOverduePredicate ==
    LET f == res[CLI]
        m == res[MCP]
        marked == {x.todo : x \in {y \in f.out : y.line.overdue}}
    IN  f.op = "format" =>
          /\ (m.op = "read_todos" /\ m.out.uri = "toki://todos/overdue")
                => marked = Range(EntryIDs(m.out.data))
          /\ (m.op = "list_tool" /\ m.ok /\ m.out.in.overdue = Some(TRUE))
                => marked = Range(EntryIDs(m.out.data))
          /\ m.op = "stats" => m.out.overdue = Cardinality(marked)


\* C26: get-or-create of a tag is one logical transaction: no add of a tag
\* (add_tag_to_todo, tag add, or a tag of add_todo / add) ever fails
\* because the other process created the tag of that name in between, and
\* no two stored tags have the same name.
C26_TagGetOrCreateAtomic ==
    /\ \A a, b \in tags : a.name = b.name => a = b
    /\ \A p \in Procs : res[p].err # "create_tag_failed"


\* C27: no completed write is lost to a concurrent read-modify-write: the
\* write of an update_todo leaves the done flag and the completion time of
\* the stored todo as they are at that moment (a mark-done that returned
\* in between stays), and the write of a mark-done or mark-undone leaves
\* its description, priority, notes and due date as they are at that moment
\* (an update that returned in between stays).
C27_NoLostUpdate ==
    [][\A p \in Procs, t \in todos, u \in todos' :
         (/\ u.id = t.id
          /\ pc[p] = "upd" /\ pc'[p] # "upd"
          /\ loc[p].todo.id = t.id)
         => IF loc[p].op = "update_todo"
            THEN /\ u.done = t.done
                 /\ u.completed_at = t.completed_at
            ELSE /\ u.description = t.description
                 /\ u.priority = t.priority
                 /\ u.notes = t.notes
                 /\ u.due_date = t.due_date
      ]_vars


\* C28: mark-done, mark-undone and update_todo report success only if the
\* todo's row was written: when the UPDATE of one of them finds the row
\* gone (deleted by the other process since the operation read it), the
\* operation ends there with an error.
C28_SuccessOnlyIfWritten ==
    [][\A p \in Procs :
         (/\ pc[p] = "upd" /\ pc'[p] # "upd"
          /\ loc[p].op \in {"mark_done", "mark_undone", "update_todo"}
          /\ loc[p].todo.id \notin IDsOf(todos))
         => pc'[p] = "idle" /\ ~res'[p].ok
      ]_vars


\* C29: referential integrity in every reachable state: the project of
\* every stored todo is a stored project, and every todo_tags row refers
\* to a stored todo and a stored tag, whichever connection of its pool a
\* process runs a statement on.
C29_ReferentialIntegrity ==
    /\ \A t \in todos : \E pr \in projects : pr.id = t.project_id
    /\ \A r \in DOMAIN todo_tags :
          /\ \E t \in todos : t.id = r.todo_id
          /\ \E g \in tags : g.id = r.tag_id


\* the sum of the todo_count of the entries of a per-project histogram
RECURSIVE SumCounts(_)
SumCounts(S) ==
    IF S = {} THEN 0
    ELSE LET e == CHOOSE x \in S : TRUE
         IN  e.todo_count + SumCounts(S \ {e})

\* C30: in every stats result the per-project histogram accounts for every
\* counted todo: its entries are of different projects, each counts at
\* least one todo, and the counts sum to the reported total, whatever the
\* other process writes between the read of the todos and the read of the
\* projects.
C30_StatsByProjectComplete ==
    \A p \in Procs :
       res[p].op = "stats" =>
          /\ \A a, b \in res[p].out.by_project :
                a.project_id = b.project_id => a = b
          /\ \A a \in res[p].out.by_project : a.todo_count >= 1
          /\ SumCounts(res[p].out.by_project) = res[p].out.total
====
